---- MODULE Spec2Model ----
(***************************************************************************)
(* Ingestion-and-validation pipeline of quap_validator: the archive stage, *)
(* the adapter load, the row-count probe, the Validation Engine            *)
(* (validate_with_duckdb) and the Report Model (build_report, exit_code).  *)
(*                                                                         *)
(* A cell of a relation is a text: the SQL NULL is the marker NULL, a      *)
(* VARCHAR cell is its text, a BIGINT cell is the decimal text of its      *)
(* integer.  A Python None is the marker None (NoneN for a number).        *)
(***************************************************************************)
EXTENDS Integers, Sequences, FiniteSets, TLC

\* Largest number of rows of a relation.
MaxRows == 2

NULL == "<NULL>"
None == "<None>"
NoneN == -1

InSeq(x, s) == \E i \in DOMAIN s : s[i] = x

SeqSet(s) == {s[i] : i \in DOMAIN s}

SeqsUpTo(S, n) == UNION {[1..k -> S] : k \in 0..n}

RECURSIVE Flatten(_)
Flatten(ss) == IF Len(ss) = 0 THEN <<>> ELSE Head(ss) \o Flatten(Tail(ss))

(***************************************************************************)
(* reporting.py: issue codes and exit codes                                *)
(***************************************************************************)
ISSUE == {"CORRUPTED_FILE", "MISSING_COLUMNS", "EXTRA_COLUMNS", "DTYPE_MISMATCH", "ENUM_VIOLATION", "RANGE_VIOLATION", "NULL_REQUIRED", "DUPLICATES", "GEOMETRY_CRS_MISMATCH", "GEOMETRY_TYPE_MISMATCH"}

EXIT_OK == 0
EXIT_CORRUPTED == 2
EXIT_SCHEMA == 3
EXIT_TYPES_OR_VALUES == 4
EXIT_DUPLICATES == 5
EXIT_OTHER == 6

(***************************************************************************)
(* engine.py: the logical types and the SQL the engine builds              *)
(***************************************************************************)
DUCK_TYPES == [int64 |-> "BIGINT", float64 |-> "DOUBLE", string |-> "VARCHAR", bool |-> "BOOLEAN", date |-> "DATE", timestamp |-> "TIMESTAMP"]

\* str(v) of a number literal of a template, as an f-string renders it.
PyStr(n) == CASE n = 0 -> "0" [] n = 1 -> "1" [] n = 5 -> "5" [] n = 7 -> "7" [] n = 9 -> "9"

\* The integer a text holds, NoneN when it holds none (what a cast to BIGINT or
\* DOUBLE parses).
ParseInt(s) == CASE s = "0" -> 0 [] s = "1" -> 1 [] s = "5" -> 5 [] s = "7" -> 7 [] s = "9" -> 9 [] OTHER -> NoneN

\* Whether the engine's cast of a non-NULL cell of physical type phys to the SQL
\* type t yields a value.
Castable(cell, phys, t) ==
    CASE t = "VARCHAR" -> TRUE
      [] t = phys -> TRUE
      [] t \in {"BIGINT", "DOUBLE"} -> ParseInt(cell) # NoneN
      [] t = "BOOLEAN" -> cell \in {"0", "1"}
      [] OTHER -> FALSE

\* TRY_CAST(col AS t) IS NULL
TryCastIsNull(cell, phys, t) == cell = NULL \/ ~Castable(cell, phys, t)

str_vals(null_equivalents) == SelectSeq(null_equivalents, LAMBDA v : v.isStr)

\* The predicate _null_predicate builds, evaluated on one row.
_null_predicate(row, col, duck_type, null_equivalents) ==
    IF Len(null_equivalents) = 0 \/ (duck_type # "" /\ duck_type # "VARCHAR")
    THEN row[col] = NULL
    ELSE IF Len(str_vals(null_equivalents)) = 0
         THEN row[col] = NULL
         ELSE row[col] = NULL \/ \E i \in DOMAIN str_vals(null_equivalents) : row[col] = str_vals(null_equivalents)[i].s

_nonnull_predicate(row, col, duck_type, null_equivalents) == ~_null_predicate(row, col, duck_type, null_equivalents)

(***************************************************************************)
(* engine.py: validate_with_duckdb                                         *)
(* A relation is [cols, types, rows]: the column names DESCRIBE lists, the *)
(* physical type of each, and the rows.  A template is [allow_extra_columns*)
(* ("absent", "true" or "false"), null_equivalents, columns,               *)
(* duplicate_checks]; a literal of it is [isStr, s, n].                    *)
(***************************************************************************)
Issue0 == [code |-> None, detail |-> None, column |-> None, columns |-> <<>>, keys |-> <<>>, invalid_rows |-> NoneN, examples |-> <<>>, details |-> <<>>, count |-> NoneN]

Detail0 == [column |-> None, dtype |-> None, expected |-> None, invalid_rows |-> NoneN]

present(rel) == rel.cols

duck_types_by_col(rel) == rel.types

expected(tpl) == [i \in DOMAIN tpl.columns |-> tpl.columns[i].name]

missing(rel, tpl) == SelectSeq(expected(tpl), LAMBDA c : ~InSeq(c, present(rel)))

allow_extra_columns_default_false(tpl) == tpl.allow_extra_columns = "true"

\* template.get("allow_extra_columns", True)
allow_extra_columns(tpl) == IF tpl.allow_extra_columns = "absent" THEN TRUE ELSE tpl.allow_extra_columns = "true"

extra(rel, tpl) == IF ~allow_extra_columns(tpl) THEN SelectSeq(present(rel), LAMBDA c : ~InSeq(c, expected(tpl))) ELSE <<>>

n_null(rel, tpl, col) == Cardinality({i \in DOMAIN rel.rows : _null_predicate(rel.rows[i], col, duck_types_by_col(rel)[col], tpl.null_equivalents)})

_bad_cast_count_nulls_too(rel, col, logical_type, duck_type, null_equivalents) ==
    IF logical_type = "geometry" THEN 0
    ELSE IF logical_type \notin DOMAIN DUCK_TYPES THEN 0
    ELSE Cardinality({i \in DOMAIN rel.rows : rel.rows[i][col] # NULL /\ TryCastIsNull(rel.rows[i][col], duck_type, DUCK_TYPES[logical_type])})

_bad_cast_count(rel, col, logical_type, duck_type, null_equivalents) ==
    IF logical_type = "geometry" THEN 0
    ELSE IF logical_type \notin DOMAIN DUCK_TYPES THEN 0
    ELSE Cardinality({i \in DOMAIN rel.rows : _nonnull_predicate(rel.rows[i], col, duck_type, null_equivalents) /\ TryCastIsNull(rel.rows[i][col], duck_type, DUCK_TYPES[logical_type])})

\* The template columns the loop does not skip.
PresentSpecs(rel, tpl) == SelectSeq(tpl.columns, LAMBDA cs : InSeq(cs.name, present(rel)))

nulls_nonzero_only(rel, tpl) == [c \in {c2 \in {tpl.columns[i].name : i \in DOMAIN tpl.columns} \cap {rel.cols[i] : i \in DOMAIN rel.cols} : n_null(rel, tpl, c2) > 0} |-> n_null(rel, tpl, c)]

nulls(rel, tpl) == [c \in {cs.name : cs \in {tpl.columns[i] : i \in DOMAIN tpl.columns}} \cap {rel.cols[i] : i \in DOMAIN rel.cols} |-> n_null(rel, tpl, c)]

unknown_dtype_issues(rel, tpl) ==
    LET ps == PresentSpecs(rel, tpl)
    IN  Flatten([i \in DOMAIN ps |-> IF ps[i].dtype \notin DOMAIN DUCK_TYPES THEN <<[Detail0 EXCEPT !.column = ps[i].name, !.dtype = ps[i].dtype]>> ELSE <<>>])

mism(rel, tpl) ==
    LET ps == PresentSpecs(rel, tpl)
        bad(cs) == _bad_cast_count(rel, cs.name, cs.dtype, duck_types_by_col(rel)[cs.name], tpl.null_equivalents)
    IN  Flatten([i \in DOMAIN ps |-> IF ps[i].dtype \in DOMAIN DUCK_TYPES /\ bad(ps[i]) > 0 THEN <<[Detail0 EXCEPT !.column = ps[i].name, !.expected = ps[i].dtype, !.invalid_rows = bad(ps[i])]>> ELSE <<>>])

\* col NOT IN (enum values), for a VARCHAR column and string literals.
NotInEnum(cell, enum) == cell # NULL /\ \A i \in DOMAIN enum : cell # enum[i].s

bad_enum(rel, tpl, cs) == Cardinality({i \in DOMAIN rel.rows : _nonnull_predicate(rel.rows[i], cs.name, duck_types_by_col(rel)[cs.name], tpl.null_equivalents) /\ NotInEnum(rel.rows[i][cs.name], cs.enum)})

\* (CAST(col AS t) < min) OR (CAST(col AS t) > max), for a castable cell.
OutOfRange(cell, rng) == cell # NULL /\ ((rng.hasMin /\ ParseInt(cell) < rng.min) \/ (rng.hasMax /\ ParseInt(cell) > rng.max))

bad_range(rel, tpl, cs) == Cardinality({i \in DOMAIN rel.rows : _nonnull_predicate(rel.rows[i], cs.name, duck_types_by_col(rel)[cs.name], tpl.null_equivalents) /\ OutOfRange(rel.rows[i][cs.name], cs.range)})

\* The range query uses CAST, which fails the whole query on a cell that does not
\* cast.  The engine evaluates CAST on every row its non-null conjunct keeps; on
\* the rows that conjunct drops it may (eager) or may not evaluate it, the order
\* of the conjuncts of a WHERE being the engine's choice.
RangeQueryFails(rel, tpl, cs, eager) ==
    /\ cs.hasRange /\ cs.dtype \in DOMAIN DUCK_TYPES
    /\ cs.range.hasMin \/ cs.range.hasMax
    /\ \E i \in DOMAIN rel.rows :
          /\ rel.rows[i][cs.name] # NULL
          /\ ~Castable(rel.rows[i][cs.name], duck_types_by_col(rel)[cs.name], DUCK_TYPES[cs.dtype])
          /\ eager \/ _nonnull_predicate(rel.rows[i], cs.name, duck_types_by_col(rel)[cs.name], tpl.null_equivalents)

\* The issues one pass of the column loop appends to result["errors"].
LoopErrors(rel, tpl) ==
    LET ps == PresentSpecs(rel, tpl)
        en(cs) == IF cs.hasEnum /\ bad_enum(rel, tpl, cs) > 0 THEN <<[Issue0 EXCEPT !.code = "ENUM_VIOLATION", !.column = cs.name, !.invalid_rows = bad_enum(rel, tpl, cs)]>> ELSE <<>>
        rg(cs) == IF cs.hasRange /\ cs.dtype \in DOMAIN DUCK_TYPES /\ bad_range(rel, tpl, cs) > 0 THEN <<[Issue0 EXCEPT !.code = "RANGE_VIOLATION", !.column = cs.name, !.invalid_rows = bad_range(rel, tpl, cs)]>> ELSE <<>>
    IN  Flatten([i \in DOMAIN ps |-> en(ps[i]) \o rg(ps[i])])

NullRequiredErrors(rel, tpl) ==
    LET ps == PresentSpecs(rel, tpl)
        get(c) == IF c \in DOMAIN nulls(rel, tpl) THEN nulls(rel, tpl)[c] ELSE 0
    IN  Flatten([i \in DOMAIN ps |-> IF ps[i].required /\ get(ps[i].name) > 0 THEN <<[Issue0 EXCEPT !.code = "NULL_REQUIRED", !.column = ps[i].name, !.count = nulls(rel, tpl)[ps[i].name]]>> ELSE <<>>])

\* The groups of GROUP BY keys HAVING count > 1: key values and occurrence count.
KeyOf(row, keys) == [j \in DOMAIN keys |-> row[keys[j]]]

DupGroups(rel, keys) ==
    LET ks == {KeyOf(rel.rows[i], keys) : i \in DOMAIN rel.rows}
        cnt(k) == Cardinality({i \in DOMAIN rel.rows : KeyOf(rel.rows[i], keys) = k})
    IN  {[vals |-> k, count |-> cnt(k)] : k \in {k2 \in ks : cnt(k2) > 1}}

Min(a, b) == IF a < b THEN a ELSE b

\* What _dup_examples may return: LIMIT keeps any limit of the groups, in any order.
_dup_examples(rel, keys, limit) ==
    LET G == DupGroups(rel, keys)
        n == Min(limit, Cardinality(G))
    IN  {s \in [1..n -> G] : \A i, j \in 1..n : i # j => s[i] # s[j]}

\* d.get("sample_limit", 1000) and d.get("severity", "error")
sample_limit(d) == IF d.sample_limit = NoneN THEN 1000 ELSE d.sample_limit

severity(d) == IF d.severity = None THEN "error" ELSE d.severity

\* One choice of examples per duplicate check (<<>> for a check that is skipped).
DupChoices(rel, tpl) ==
    LET D == tpl.duplicate_checks
        opts(d) == IF \A j \in DOMAIN d.keys : InSeq(d.keys[j], present(rel)) THEN _dup_examples(rel, d.keys, sample_limit(d)) ELSE {<<>>}
    IN  {f \in [DOMAIN D -> UNION {opts(D[i]) : i \in DOMAIN D}] : \A i \in DOMAIN D : f[i] \in opts(D[i])}

DupIssues(tpl, ex, sev) ==
    LET D == tpl.duplicate_checks
    IN  Flatten([i \in DOMAIN D |-> IF Len(ex[i]) > 0 /\ (severity(D[i]) = "error") = (sev = "error") THEN <<[Issue0 EXCEPT !.code = "DUPLICATES", !.keys = D[i].keys, !.examples = ex[i]]>> ELSE <<>>])

NoNulls == [c \in {} |-> 0]

result_ok_no_warnings(result) == Len(result.errors) = 0 /\ Len(result.warnings) = 0

\* result["ok"] = len(result["errors"]) == 0
result_ok(result) == Len(result.errors) = 0

\* The dict validate_with_duckdb returns, or raised = TRUE when a query of it fails.
validate_with_duckdb(rel, tpl, eager, ex) ==
    LET errors == (IF Len(missing(rel, tpl)) > 0 THEN <<[Issue0 EXCEPT !.code = "MISSING_COLUMNS", !.columns = missing(rel, tpl)]>> ELSE <<>>)
                  \o LoopErrors(rel, tpl)
                  \o (IF Len(unknown_dtype_issues(rel, tpl)) > 0 THEN <<[Issue0 EXCEPT !.code = "DTYPE_MISMATCH", !.details = unknown_dtype_issues(rel, tpl)]>> ELSE <<>>)
                  \o (IF Len(mism(rel, tpl)) > 0 THEN <<[Issue0 EXCEPT !.code = "DTYPE_MISMATCH", !.details = mism(rel, tpl)]>> ELSE <<>>)
                  \o NullRequiredErrors(rel, tpl)
                  \o DupIssues(tpl, ex, "error")
        warnings == (IF Len(extra(rel, tpl)) > 0 THEN <<[Issue0 EXCEPT !.code = "EXTRA_COLUMNS", !.columns = extra(rel, tpl)]>> ELSE <<>>)
                    \o DupIssues(tpl, ex, "warning")
    IN  IF \E i \in DOMAIN PresentSpecs(rel, tpl) : RangeQueryFails(rel, tpl, PresentSpecs(rel, tpl)[i], eager)
        THEN [raised |-> TRUE, ok |-> TRUE, errors |-> <<>>, warnings |-> <<>>, hasNulls |-> FALSE, nulls |-> NoNulls]
        ELSE [raised |-> FALSE, ok |-> result_ok([errors |-> errors, warnings |-> warnings]), errors |-> errors, warnings |-> warnings, hasNulls |-> TRUE, nulls |-> nulls(rel, tpl)]

(***************************************************************************)
(* reporting.py: build_report and Report.exit_code                         *)
(***************************************************************************)
\* engine dict -> Issue: the keys Issue does not name go to extra.
_coerce_issues(items, sev) == [i \in DOMAIN items |-> [code |-> items[i].code, severity |-> sev, detail |-> items[i].detail, column |-> items[i].column, columns |-> items[i].columns, keys |-> items[i].keys, invalid_rows |-> items[i].invalid_rows, examples |-> items[i].examples, extra |-> [details |-> items[i].details, count |-> items[i].count]]]

build_report(er, fmt) == [ok |-> er.ok, format |-> fmt, row_count |-> er.row_count, metrics |-> er.metrics, errors |-> _coerce_issues(er.errors, "error"), warnings |-> _coerce_issues(er.warnings, "warning"), infos |-> <<>>]

codes_warnings_too(report) == [i \in DOMAIN (report.errors \o report.warnings) |-> (report.errors \o report.warnings)[i].code]

\* codes = [i.code for i in self.errors]
codes(report) == [i \in DOMAIN report.errors |-> report.errors[i].code]

exit_code(report) ==
    IF InSeq("CORRUPTED_FILE", codes(report)) THEN EXIT_CORRUPTED
    ELSE IF InSeq("MISSING_COLUMNS", codes(report)) THEN EXIT_SCHEMA
    ELSE IF InSeq("DTYPE_MISMATCH", codes(report)) \/ InSeq("ENUM_VIOLATION", codes(report)) \/ InSeq("RANGE_VIOLATION", codes(report)) \/ InSeq("NULL_REQUIRED", codes(report)) THEN EXIT_TYPES_OR_VALUES
    ELSE IF InSeq("DUPLICATES", codes(report)) THEN EXIT_DUPLICATES
    ELSE IF report.ok THEN EXIT_OK ELSE EXIT_OTHER

(***************************************************************************)
(* The inputs of a run: the template the registry loaded and the file.     *)
(***************************************************************************)
Lit(s) == [isStr |-> TRUE, s |-> s, n |-> 0]

Num(n) == [isStr |-> FALSE, s |-> "", n |-> n]

NoRange == [hasMin |-> FALSE, min |-> 0, hasMax |-> FALSE, max |-> 0]

ColSpec(name, dtype, required) == [name |-> name, dtype |-> dtype, required |-> required, hasEnum |-> FALSE, enum |-> <<>>, hasRange |-> FALSE, range |-> NoRange]

IdSpecs ==
    { ColSpec("id", "int64", TRUE),
      [ColSpec("id", "int64", FALSE) EXCEPT !.hasRange = TRUE, !.range = [hasMin |-> TRUE, min |-> 0, hasMax |-> TRUE, max |-> 5]],
      [ColSpec("id", "decimal", TRUE) EXCEPT !.hasRange = TRUE, !.range = [hasMin |-> TRUE, min |-> 0, hasMax |-> TRUE, max |-> 5]] }

StatusSpecs == { [ColSpec("status", "string", FALSE) EXCEPT !.hasEnum = TRUE, !.enum = <<Lit("A"), Lit("B")>>] }

GeomSpecs == { ColSpec("lpis_geom", "geometry", FALSE) }

Opt(S) == {<<>>} \cup {<<x>> : x \in S}

TemplateColumns == {a \o b \o c : a \in Opt(IdSpecs), b \in Opt(StatusSpecs), c \in Opt(GeomSpecs)}

DupCheck(keys, sev, limit) == [keys |-> keys, severity |-> sev, sample_limit |-> limit]

TemplateProfiles ==
    { [allow_extra_columns |-> "absent", null_equivalents |-> <<>>, duplicate_checks |-> <<>>],
      [allow_extra_columns |-> "false", null_equivalents |-> <<Lit("NA")>>, duplicate_checks |-> <<DupCheck(<<"id">>, "error", 1000)>>],
      [allow_extra_columns |-> "false", null_equivalents |-> <<Lit("NA"), Num(9)>>, duplicate_checks |-> <<DupCheck(<<"id", "status">>, "warning", 1)>>],
      [allow_extra_columns |-> "true", null_equivalents |-> <<Num(9)>>, duplicate_checks |-> <<>>] }

Templates == {[allow_extra_columns |-> p.allow_extra_columns, null_equivalents |-> p.null_equivalents, columns |-> cols, duplicate_checks |-> p.duplicate_checks] : p \in TemplateProfiles, cols \in TemplateColumns}

\* The (id, status) cells a row of a file may hold.
RowUniverse == << <<"1", "A">>, <<"x", "C">>, <<"NA", "NA">>, <<NULL, NULL>>, <<"9", "9">> >>

\* The rows a column of integer physical type can hold.
IntRows == {i \in DOMAIN RowUniverse : RowUniverse[i][1] = NULL \/ ParseInt(RowUniverse[i][1]) # NoneN}

Cell(c, i) == CASE c = "id" -> RowUniverse[i][1] [] c = "status" -> RowUniverse[i][2] [] c = "lpis_geom" -> "POINT (0 0)" [] OTHER -> "e"

ColType(c, idType) == CASE c = "id" -> idType [] c = "lpis_geom" -> "GEOMETRY" [] OTHER -> "VARCHAR"

Relation(cols, idType, idxs) ==
    LET cs == {cols[j] : j \in DOMAIN cols}
    IN  [cols |-> cols, types |-> [c \in cs |-> ColType(c, idType)], rows |-> [k \in DOMAIN idxs |-> [c \in cs |-> Cell(c, idxs[k])]]]

\* Rows in one order only: no check of the engine depends on the order of the rows.
RowChoices(S) == {s \in SeqsUpTo(S, MaxRows) : \A k \in 1..(Len(s) - 1) : s[k] <= s[k + 1]}

Schemas == {a \o b \o c : a \in Opt({"id"}), b \in Opt({"status"}), c \in {<<>>, <<"lpis_geom">>, <<"extra">>}} \ {<<>>}

Relations == {Relation(cols, "VARCHAR", idxs) : cols \in Schemas, idxs \in RowChoices(DOMAIN RowUniverse)}
             \cup {Relation(cols, "BIGINT", idxs) : cols \in {sc \in Schemas : InSeq("id", sc)}, idxs \in RowChoices(IntRows)}

EmptyRelation == Relation(<<>>, "VARCHAR", <<>>)

(***************************************************************************)
(* cli.py: main, from the loaded template to SystemExit                    *)
(*   env    what the run finds: how maybe_decompress ends (stage), the     *)
(*          format given or detected (fmt), whether the pre-flight probe   *)
(*          reports errors (corrupt), whether the adapter raises           *)
(*          (loadRaises), whether writing the report file raises           *)
(*          (writeRaises), the relation the file holds (file)              *)
(*   view   the relation "v" of the connection                             *)
(*   vr     what the last call of validate_with_duckdb did                 *)
(***************************************************************************)
VARIABLES pc, tpl, env, view, engine_result, vr, rep, exit_status, cleanups

(***************************************************************************)
(* compression.py: the state of one call of maybe_decompress               *)
(*   arc    the input path: whether it exists, its name, whether its       *)
(*          archive can be read, the members of the archive                *)
(*   tmp    the temporary directory: whether it exists, the files under    *)
(*          it, the files the extraction wrote outside of it               *)
(*   out    how the call ended: the path and cleanup returned, or the      *)
(*          exception raised                                               *)
(***************************************************************************)
VARIABLES arc, tmp, out

(***************************************************************************)
(* geom_alias.py: nrm holds the relation normalize_geometry_view is run    *)
(* on, the canonical name requested, and the outcome of each run.          *)
(* gpkg_adapter.py, shapefile_adapter.py: con is the catalog of the        *)
(* connection (each relation's kind, columns and number of rows), ld the   *)
(* arguments and locals of the chunked copy.                               *)
(***************************************************************************)
VARIABLES nrm, con, ld

(***************************************************************************)
(* duck.py: sx holds a connection object as ensure_spatial_extension sees  *)
(* it (whether it can be weakly referenced, whether it accepts custom      *)
(* attributes, whether it is in _SPATIAL_EXTENSION_LOADED, whether it has  *)
(* the attribute _validator_spatial_loaded) and what each call on it did.  *)
(***************************************************************************)
VARIABLES sx

(***************************************************************************)
(* reporting.py: rp holds the input path given to build_report, as the     *)
(* sequence of its pieces ("://", "@", ":", "/" and the words between      *)
(* them), its userinfo component, and the path the report holds.           *)
(***************************************************************************)
VARIABLES rp

vars == <<pc, tpl, env, view, engine_result, vr, rep, exit_status, cleanups, arc, tmp, out, nrm, con, ld, sx, rp>>

\* The state of the components a run of main leaves alone.
others == <<arc, tmp, out, nrm, con, ld, sx, rp>>

NoRedact == [path |-> <<>>, userinfo |-> <<>>, reported |-> <<>>, built |-> FALSE]

NoSpatial == [conn |-> [weak |-> FALSE, attr |-> FALSE, in_set |-> FALSE, marker |-> FALSE], log |-> <<>>]

NoNorm == [cols |-> <<>>, explicit |-> None, runs |-> <<>>]

NoCatalog == [r \in {} |-> 0]

NoLoad == [adapter |-> None]

NoArchive == [exists |-> FALSE, name |-> None, readable |-> FALSE, members |-> {}]

NoTmp == [exists |-> FALSE, files |-> {}, outside |-> {}]

NoPath == [in_tmp |-> FALSE, segs |-> <<>>]

NoOut == [status |-> "none", path |-> NoPath, cleanup |-> None]

StagerIdle == arc = NoArchive /\ tmp = NoTmp /\ out = NoOut

OthersIdle == StagerIdle /\ nrm = NoNorm /\ con = NoCatalog /\ ld = NoLoad /\ sx = NoSpatial /\ rp = NoRedact

NoMetrics == [hasNulls |-> FALSE, nulls |-> NoNulls, hasAdapterDiagnostics |-> FALSE]

NoResult == [ok |-> TRUE, errors |-> <<>>, warnings |-> <<>>, metrics |-> NoMetrics, row_count |-> NoneN]

NoReport == [built |-> FALSE, report |-> build_report(NoResult, None)]

NoCall == [called |-> FALSE, result |-> [raised |-> FALSE, ok |-> TRUE, errors |-> <<>>, warnings |-> <<>>, hasNulls |-> FALSE, nulls |-> NoNulls]]

Stages == {"plain", "unpacked", "UnpackError", "Exception"}

Formats == {"CSV", "GEOPARQUET", "GEOPACKAGE", "SHAPEFILE"}

Start(t, e) ==
    /\ pc = "stage" /\ tpl = t /\ env = e
    /\ view = [exists |-> FALSE, rel |-> EmptyRelation]
    /\ engine_result = NoResult /\ vr = NoCall /\ rep = NoReport
    /\ exit_status = NoneN /\ cleanups = 0
    /\ OthersIdle

\* Runs that stage and load their file: every template on every relation.
InitValid ==
    \E t \in Templates, f \in Relations :
        Start(t, [stage |-> "plain", fmt |-> IF InSeq("id", f.cols) /\ f.types["id"] = "BIGINT" THEN "GEOPARQUET" ELSE "CSV", corrupt |-> FALSE, loadRaises |-> FALSE, writeRaises |-> FALSE, file |-> f])

FaultTemplates == {t \in Templates : Len(t.columns) = 3 /\ t.allow_extra_columns = "false" /\ Len(t.duplicate_checks) = 1 /\ t.columns[1].dtype = "int64"}

FaultRelations == {f \in Relations : f.cols = <<"id", "status">> /\ f.types["id"] = "VARCHAR" /\ Len(f.rows) = 1}

\* Runs of every staging outcome, format, probe outcome and adapter outcome.
InitFaults ==
    \E t \in FaultTemplates, f \in FaultRelations, s \in Stages, m \in Formats \cup {"undetected"}, c \in BOOLEAN, l \in BOOLEAN, w \in BOOLEAN :
        Start(t, [stage |-> s, fmt |-> m, corrupt |-> c, loadRaises |-> l, writeRaises |-> w, file |-> f])

Init == InitValid \/ InitFaults

CorruptedFile_as_internal_error(detail) == [Issue0 EXCEPT !.code = "INTERNAL_ERROR", !.detail = detail]

CorruptedFile(detail) == [Issue0 EXCEPT !.code = "CORRUPTED_FILE", !.detail = detail]

\* cli.py 177-180: maybe_decompress returned.
Stage ==
    /\ pc = "stage" /\ env.stage \in {"plain", "unpacked"}
    /\ pc' = "load"
    /\ UNCHANGED <<tpl, env, view, engine_result, vr, rep, exit_status, cleanups>>
    /\ UNCHANGED others

\* cli.py 180-187: maybe_decompress raised UnpackError.
StageUnpackError ==
    /\ pc = "stage" /\ env.stage = "UnpackError"
    /\ engine_result' = [ok |-> FALSE, errors |-> <<[Issue0 EXCEPT !.code = "UNPACK_ERROR", !.detail = "unpack"]>>, warnings |-> <<>>, metrics |-> NoMetrics, row_count |-> NoneN]
    /\ pc' = "build"
    /\ UNCHANGED <<tpl, env, view, vr, rep, exit_status, cleanups>>
    /\ UNCHANGED others

\* cli.py 179: maybe_decompress raised an error that is no UnpackError; main has
\* no handler for it.
StageException ==
    /\ pc = "stage" /\ env.stage = "Exception"
    /\ pc' = "aborted"
    /\ UNCHANGED <<tpl, env, view, engine_result, vr, rep, exit_status, cleanups>>
    /\ UNCHANGED others

\* cli.py 214: detect_format raises UsageError outside every try.
LoadUndetected ==
    /\ pc = "load" /\ env.fmt = "undetected"
    /\ pc' = "aborted"
    /\ UNCHANGED <<tpl, env, view, engine_result, vr, rep, exit_status, cleanups>>
    /\ UNCHANGED others

\* cli.py 216-273: the pre-flight probe of the format and its adapter.
Load ==
    /\ pc = "load" /\ env.fmt \in Formats
    /\ LET probe == IF env.fmt # "CSV" /\ env.corrupt THEN <<CorruptedFile(IF env.fmt = "GEOPARQUET" THEN "parquet_metadata" ELSE "integrity")>> ELSE <<>>
           open == IF env.loadRaises THEN <<CorruptedFile("open_failed")>> ELSE <<>>
       IN  engine_result' = [NoResult EXCEPT !.ok = Len(probe \o open) = 0, !.errors = probe \o open]
    /\ view' = IF env.loadRaises THEN view ELSE [exists |-> TRUE, rel |-> env.file]
    /\ pc' = "probe"
    /\ UNCHANGED <<tpl, env, vr, rep, exit_status, cleanups>>
    /\ UNCHANGED others

\* cli.py 275-279: SELECT COUNT(*) FROM v
RowCountProbe ==
    /\ pc = "probe"
    /\ engine_result' = [engine_result EXCEPT !.row_count = IF view.exists THEN Len(view.rel.rows) ELSE NoneN]
    /\ pc' = "validate"
    /\ UNCHANGED <<tpl, env, view, vr, rep, exit_status, cleanups>>
    /\ UNCHANGED others

\* cli.py 281: the engine is not called once a stage has failed.
ValidateSkipped ==
    /\ pc = "validate" /\ ~engine_result.ok
    /\ pc' = "build"
    /\ UNCHANGED <<tpl, env, view, engine_result, vr, rep, exit_status, cleanups>>
    /\ UNCHANGED others

\* cli.py 281-296: validate_with_duckdb, its result merged or its failure caught.
Validate ==
    /\ pc = "validate" /\ engine_result.ok
    /\ \E eager \in BOOLEAN, ex \in DupChoices(view.rel, tpl) :
          LET r == validate_with_duckdb(view.rel, tpl, eager, ex)
          IN  /\ vr' = [called |-> TRUE, result |-> r]
              /\ engine_result' =
                    IF r.raised
                    THEN [engine_result EXCEPT !.errors = @ \o <<CorruptedFile("validation_failed")>>, !.ok = FALSE]
                    ELSE [engine_result EXCEPT !.errors = @ \o r.errors, !.warnings = @ \o r.warnings, !.metrics = [@ EXCEPT !.hasNulls = r.hasNulls, !.nulls = r.nulls], !.ok = r.ok /\ @]
    /\ pc' = "build"
    /\ UNCHANGED <<tpl, env, view, rep, exit_status, cleanups>>
    /\ UNCHANGED others

\* cli.py 298-328 (and 188-204 after an UnpackError): build_report
BuildReport ==
    /\ pc = "build"
    /\ LET diagnostics == view.exists /\ env.fmt \in {"GEOPACKAGE", "SHAPEFILE"}
           unpack_diag == env.stage = "unpacked"
           er == IF unpack_diag \/ diagnostics THEN [engine_result EXCEPT !.metrics.hasAdapterDiagnostics = TRUE] ELSE engine_result
       IN  /\ engine_result' = er
           /\ rep' = [built |-> TRUE, report |-> build_report(er, IF env.stage = "UnpackError" THEN None ELSE env.fmt)]
    /\ pc' = "finish"
    /\ UNCHANGED <<tpl, env, view, vr, exit_status, cleanups>>
    /\ UNCHANGED others

\* cli.py 330-349 (and 205-212): the report is written, the connection closed,
\* cleanup called, and the process exits with rep.exit_code().
Finish ==
    /\ pc = "finish" /\ (env.stage = "UnpackError" \/ ~env.writeRaises)
    /\ view' = [exists |-> FALSE, rel |-> EmptyRelation]
    /\ cleanups' = IF env.stage = "UnpackError" THEN cleanups ELSE cleanups + 1
    /\ exit_status' = exit_code(rep.report)
    /\ pc' = "exited"
    /\ UNCHANGED <<tpl, env, engine_result, vr, rep>>
    /\ UNCHANGED others

\* cli.py 334-335: rep.write_json(report) raises (the report path cannot be
\* written); the statement is in no try, the connection is not closed and
\* cleanup is not called.
FinishWriteFails ==
    /\ pc = "finish" /\ env.stage # "UnpackError" /\ env.writeRaises
    /\ pc' = "aborted"
    /\ UNCHANGED <<tpl, env, view, engine_result, vr, rep, exit_status, cleanups>>
    /\ UNCHANGED others

Next == Stage \/ StageUnpackError \/ StageException \/ LoadUndetected \/ Load \/ RowCountProbe \/ ValidateSkipped \/ Validate \/ BuildReport \/ Finish \/ FinishWriteFails

Spec == Init /\ [][Next]_vars

(***************************************************************************)
(* Report.exit_code on its own: every report of up to MaxIssues errors     *)
(***************************************************************************)
\* Largest number of errors of a report exit_code is applied to.
MaxIssues == 2

ErrorCodes == ISSUE \cup {"UNPACK_ERROR"}

WarningCodes == {"EXTRA_COLUMNS", "DUPLICATES", "CORRUPTED_FILE"}

CodesToItems(cs) == [i \in DOMAIN cs |-> [Issue0 EXCEPT !.code = cs[i]]]

InitExit ==
    \E ok \in BOOLEAN, es \in SeqsUpTo(ErrorCodes, MaxIssues), ws \in Opt(WarningCodes) :
        /\ pc = "exit_code"
        /\ rep = [built |-> TRUE, report |-> build_report([NoResult EXCEPT !.ok = ok, !.errors = CodesToItems(es), !.warnings = CodesToItems(ws)], "CSV")]
        /\ tpl = CHOOSE t \in FaultTemplates : TRUE
        /\ env = [stage |-> "plain", fmt |-> "CSV", corrupt |-> FALSE, loadRaises |-> FALSE, writeRaises |-> FALSE, file |-> EmptyRelation]
        /\ view = [exists |-> FALSE, rel |-> EmptyRelation]
        /\ engine_result = NoResult /\ vr = NoCall
        /\ exit_status = NoneN /\ cleanups = 0
        /\ OthersIdle

\* reporting.py 113-125: rep.exit_code()
ExitCodeCall ==
    /\ pc = "exit_code"
    /\ exit_status' = exit_code(rep.report)
    /\ pc' = "exit_code_done"
    /\ UNCHANGED <<tpl, env, view, engine_result, vr, rep, cleanups>>
    /\ UNCHANGED others

NextExit == ExitCodeCall

SpecExit == InitExit /\ [][NextExit]_vars

(***************************************************************************)
(* The duplicate checks of validate_with_duckdb on their own: one check of *)
(* every keys / severity / sample_limit on files of up to MaxDupRows rows  *)
(***************************************************************************)
\* Largest number of rows of a file the duplicate checks are applied to.
MaxDupRows == 4

DupRowUniverse == << [id |-> "1", status |-> "A"], [id |-> "1", status |-> "B"], [id |-> "2", status |-> "A"] >>

DupRelations == {[cols |-> <<"id", "status">>, types |-> [c \in {"id", "status"} |-> "VARCHAR"], rows |-> [k \in DOMAIN idxs |-> DupRowUniverse[idxs[k]]]] :
                    idxs \in {s \in SeqsUpTo(DOMAIN DupRowUniverse, MaxDupRows) : \A k \in 1..(Len(s) - 1) : s[k] <= s[k + 1]}}

DupChecks == {DupCheck(k, s, l) : k \in {<<"id">>, <<"id", "status">>, <<"id", "parcel_id">>}, s \in {None, "error", "warning"}, l \in {NoneN, 0, 1, 2}}

\* cli.py 281: the file is loaded as v and no stage has failed.
InitDup ==
    \E d \in DupChecks, f \in DupRelations :
        /\ pc = "validate"
        /\ tpl = [allow_extra_columns |-> "absent", null_equivalents |-> <<>>, columns |-> <<>>, duplicate_checks |-> <<d>>]
        /\ env = [stage |-> "plain", fmt |-> "CSV", corrupt |-> FALSE, loadRaises |-> FALSE, writeRaises |-> FALSE, file |-> f]
        /\ view = [exists |-> TRUE, rel |-> f]
        /\ engine_result = [NoResult EXCEPT !.row_count = Len(f.rows)]
        /\ vr = NoCall /\ rep = NoReport
        /\ exit_status = NoneN /\ cleanups = 0
        /\ OthersIdle

NextDup == Validate

SpecDup == InitDup /\ [][NextDup]_vars


(***************************************************************************)
(* compression.py: maybe_decompress                                        *)
(* A member name is [abs, segs]: whether it starts with "/" or "\", and    *)
(* its segments between the separators.  A file under the temporary        *)
(* directory is the sequence of the segments of its path below it.         *)
(***************************************************************************)
\* Largest number of members of an archive.
MaxMembers == 4

BASIC_ARCHIVE_EXTS == {".zip", ".tar", ".tgz", ".tar.gz", ".tar.bz2", ".tbz2", ".tar.xz", ".txz", ".gz", ".bz2", ".xz"}

InputNames == {"data.csv", "data.csv.gz", "data.zip", "data.tar.gz"}

\* The extensions of BASIC_ARCHIVE_EXTS the lower-cased name ends with.
EndsWithExts(name) == CASE name = "data.csv.gz" -> {".gz"} [] name = "data.zip" -> {".zip"} [] name = "data.tar.gz" -> {".tar.gz", ".gz"} [] OTHER -> {}

_is_archive(name) == EndsWithExts(name) \cap BASIC_ARCHIVE_EXTS # {}

\* Path.suffix and Path.stem of a file name.
Suffix(f) == CASE f \in {"a.shp", "b.shp"} -> ".shp" [] f = "a.dbf" -> ".dbf" [] f = "a.shx" -> ".shx" [] f = "a.prj" -> ".prj" [] f \in {"b.csv", "data.csv"} -> ".csv" [] f \in {"data.csv.gz", "data.tar.gz"} -> ".gz" [] f = "data.zip" -> ".zip" [] OTHER -> ""

Stem(f) == CASE f \in {"a.shp", "a.dbf", "a.shx", "a.prj"} -> "a" [] f \in {"b.shp", "b.csv"} -> "b" [] f = "data.csv" -> "data" [] f = "data.csv.gz" -> "data.csv" [] f = "data.tar.gz" -> "data.tar" [] f = "data.zip" -> "data" [] OTHER -> f

Member(abs, segs) == [abs |-> abs, segs |-> segs]

MemberUniverse ==
    { Member(FALSE, <<"a.shp">>), Member(FALSE, <<"a.dbf">>), Member(FALSE, <<"a.shx">>), Member(FALSE, <<"a.prj">>),
      Member(FALSE, <<"b.csv">>), Member(FALSE, <<"d", "b.shp">>),
      Member(FALSE, <<"..", "..", "etc", "passwd">>), Member(TRUE, <<"etc", "passwd">>), Member(FALSE, <<"d", "..", "b.csv">>) }

\* os.path.normpath of a relative name: a ".." removes the segment before it,
\* and stays when there is none to remove.
RECURSIVE NormFrom(_, _)
NormFrom(done, rest) ==
    IF Len(rest) = 0 THEN done
    ELSE IF Head(rest) = ".." /\ Len(done) > 0 /\ done[Len(done)] # ".."
         THEN NormFrom(SubSeq(done, 1, Len(done) - 1), Tail(rest))
         ELSE NormFrom(Append(done, Head(rest)), Tail(rest))

normpath(segs) == NormFrom(<<>>, segs)

\* The test _safe_namelist_zip and _safe_members_tar make of one name.
UnsafeMember(m) ==
    \/ m.abs
    \/ Len(normpath(m.segs)) > 0 /\ normpath(m.segs)[1] = ".."
    \/ \E i \in 2..(Len(normpath(m.segs)) - 1) : normpath(m.segs)[i] = ".."

\* Where extractall writes a member: ZipFile drops the ".." segments of the
\* name, TarFile joins the name to the directory.
ExtractedPath(kind, m) == IF kind = "zip" THEN SelectSeq(m.segs, LAMBDA x : x # "..") ELSE normpath(m.segs)

WrittenOutside(kind, m) == kind = "tar" /\ (m.abs \/ (Len(normpath(m.segs)) > 0 /\ normpath(m.segs)[1] = ".."))

\* p.with_suffix("")
with_suffix_none(path) == SubSeq(path, 1, Len(path) - 1) \o <<Stem(path[Len(path)])>>

\* The result of _shapefile_dataset_root: {} for None, else the set of the root.
_shapefile_dataset_root(paths) ==
    LET shp_files == {q \in paths : Suffix(q[Len(q)]) = ".shp"}
        siblings(st) == {q \in paths : with_suffix_none(q) = st}
    IN  IF Cardinality(shp_files) # 1 THEN {}
        ELSE IF ~\E q \in siblings(with_suffix_none(CHOOSE r \in shp_files : TRUE)) : Suffix(q[Len(q)]) = ".dbf" THEN {}
        ELSE IF ~\E q \in siblings(with_suffix_none(CHOOSE r \in shp_files : TRUE)) : Suffix(q[Len(q)]) = ".shx" THEN {}
        ELSE shp_files

Raise(kind) == [status |-> kind, path |-> NoPath, cleanup |-> None]

Return(in_tmp, segs, cleanup) == [status |-> "returned", path |-> [in_tmp |-> in_tmp, segs |-> segs], cleanup |-> cleanup]

NoTemplate == [allow_extra_columns |-> "absent", null_equivalents |-> <<>>, columns |-> <<>>, duplicate_checks |-> <<>>]

PipelineIdle ==
    /\ tpl = NoTemplate
    /\ env = [stage |-> "plain", fmt |-> "CSV", corrupt |-> FALSE, loadRaises |-> FALSE, writeRaises |-> FALSE, file |-> EmptyRelation]
    /\ view = [exists |-> FALSE, rel |-> EmptyRelation]
    /\ engine_result = NoResult /\ vr = NoCall /\ rep = NoReport
    /\ exit_status = NoneN /\ cleanups = 0

InitUnpack ==
    \E e \in BOOLEAN, n \in InputNames, r \in BOOLEAN, ms \in {x \in SUBSET MemberUniverse : Cardinality(x) <= MaxMembers} :
        /\ pc = "md_start"
        /\ arc = [exists |-> e, name |-> n, readable |-> r, members |-> IF e /\ r /\ n \in {"data.zip", "data.tar.gz"} THEN ms ELSE {}]
        /\ tmp = NoTmp /\ out = NoOut
        /\ nrm = NoNorm /\ con = NoCatalog /\ ld = NoLoad /\ sx = NoSpatial /\ rp = NoRedact
        /\ PipelineIdle

\* compression.py 101-115: the path is missing, is no archive, or is an archive
\* for which the temporary directory is created.
MdStart ==
    /\ pc = "md_start"
    /\ IF ~arc.exists THEN out' = Raise("UnpackError") /\ tmp' = tmp /\ pc' = "md_done"
       ELSE IF ~_is_archive(arc.name) THEN out' = Return(FALSE, <<arc.name>>, "noop") /\ tmp' = tmp /\ pc' = "md_done"
       ELSE /\ tmp' = [tmp EXCEPT !.exists = TRUE]
            /\ out' = out
            /\ pc' = IF Suffix(arc.name) \in {".gz", ".bz2", ".xz"} /\ EndsWithExts(arc.name) \cap {".tar.gz", ".tar.bz2", ".tar.xz", ".tgz", ".tbz2", ".txz"} = {} THEN "md_single" ELSE "md_names"
    /\ UNCHANGED <<tpl, env, view, engine_result, vr, rep, exit_status, cleanups, arc>>
    /\ UNCHANGED <<nrm, con, ld, sx, rp>>

\* compression.py 114-115 and 75-91: _single_file_stream_decompress
MdSingle ==
    /\ pc = "md_single"
    /\ IF arc.readable
       THEN tmp' = [tmp EXCEPT !.files = {<<Stem(arc.name)>>}] /\ out' = Return(TRUE, <<Stem(arc.name)>>, "tmpdir")
       ELSE tmp' = [tmp EXCEPT !.files = {<<Stem(arc.name)>>}] /\ out' = Raise("Exception")
    /\ pc' = "md_done"
    /\ UNCHANGED <<tpl, env, view, engine_result, vr, rep, exit_status, cleanups, arc>>
    /\ UNCHANGED <<nrm, con, ld, sx, rp>>

\* compression.py 118-119 and 125-126: the archive is opened and every member
\* name is checked.
MdNames ==
    /\ pc = "md_names"
    /\ IF ~arc.readable THEN out' = Raise("Exception") /\ pc' = "md_done"
       ELSE IF \E m \in arc.members : UnsafeMember(m) THEN out' = Raise("UnpackError") /\ pc' = "md_done"
       ELSE out' = out /\ pc' = "md_extract"
    /\ UNCHANGED <<tpl, env, view, engine_result, vr, rep, exit_status, cleanups, arc, tmp>>
    /\ UNCHANGED <<nrm, con, ld, sx, rp>>

\* compression.py 120 and 127: extractall of the checked members.  TarFile
\* creates the directories of a member's name as written: on a name with a ".."
\* below a directory that no earlier member created, makedirs raises
\* FileExistsError after the earlier members (early) were extracted.
MdExtract ==
    /\ pc = "md_extract"
    /\ LET kind == IF ".zip" \in EndsWithExts(arc.name) THEN "zip" ELSE "tar"
           all == [tmp EXCEPT !.files = {ExtractedPath(kind, m) : m \in {x \in arc.members : ~WrittenOutside(kind, x)}},
                              !.outside = {m \in arc.members : WrittenOutside(kind, m)}]
       IN  \/ tmp' = all /\ out' = out /\ pc' = "md_root"
           \/ /\ kind = "tar" /\ \E m \in arc.members : InSeq("..", m.segs)
              /\ \E early \in SUBSET {x \in arc.members : ~InSeq("..", x.segs)} :
                    tmp' = [tmp EXCEPT !.files = {ExtractedPath(kind, m) : m \in early}]
              /\ out' = Raise("Exception") /\ pc' = "md_done"
    /\ UNCHANGED <<tpl, env, view, engine_result, vr, rep, exit_status, cleanups, arc>>
    /\ UNCHANGED <<nrm, con, ld, sx, rp>>

\* compression.py 133-150: the dataset root among the extracted files
MdRoot ==
    /\ pc = "md_root"
    /\ IF tmp.files = {} THEN tmp' = [tmp EXCEPT !.exists = FALSE] /\ out' = Raise("UnpackError")
       ELSE IF Cardinality(tmp.files) = 1 THEN tmp' = tmp /\ out' = Return(TRUE, CHOOSE q \in tmp.files : TRUE, "tmpdir")
       ELSE IF _shapefile_dataset_root(tmp.files) # {} THEN tmp' = tmp /\ out' = Return(TRUE, CHOOSE q \in _shapefile_dataset_root(tmp.files) : TRUE, "tmpdir")
       ELSE tmp' = tmp /\ out' = Raise("UnpackError")
    /\ pc' = "md_done"
    /\ UNCHANGED <<tpl, env, view, engine_result, vr, rep, exit_status, cleanups, arc>>
    /\ UNCHANGED <<nrm, con, ld, sx, rp>>

NextUnpack == MdStart \/ MdSingle \/ MdNames \/ MdExtract \/ MdRoot

SpecUnpack == InitUnpack /\ [][NextUnpack]_vars

(***************************************************************************)
(* geom_alias.py: normalize_geometry_view                                  *)
(* A relation is the sequence of its columns, each [name, ctype].          *)
(***************************************************************************)
\* Largest number of columns of a relation the normalizer is run on.
MaxCols == 3

Col(name, ctype) == [name |-> name, ctype |-> ctype]

\* lower(column_name), str.lower
Lower(n) == IF n = "GEOM" THEN "geom" ELSE n

\* k.startswith(prefix)
StartsWith(k, prefix) == CASE prefix = "gsa_" -> k \in {"gsa_geom", "gsa_id"} [] prefix = "lpis_" -> k \in {"lpis_geom", "lpis_id"} [] OTHER -> FALSE

\* The dict of lower-cased column names to types.
_duckdb_cols(rel) == [n \in {Lower(rel[i].name) : i \in DOMAIN rel} |-> (CHOOSE c \in {rel[i] : i \in DOMAIN rel} : Lower(c.name) = n).ctype]

guess_canonical_by_columns(present_cols) ==
    IF "lpis_geom" \in DOMAIN present_cols THEN "lpis_geom"
    ELSE IF "gsa_geom" \in DOMAIN present_cols THEN "gsa_geom"
    ELSE IF "gem" \in DOMAIN present_cols THEN "gsa_geom"
    ELSE IF \E k \in DOMAIN present_cols : StartsWith(k, "gsa_") THEN "gsa_geom"
    ELSE IF \E k \in DOMAIN present_cols : StartsWith(k, "lpis_") THEN "lpis_geom"
    ELSE None

alias_map == [lpis_geom |-> <<"lpis_geom", "geom", "geometry">>, gsa_geom |-> <<"gsa_geom", "gem", "geometry">>]

NormResult(raised, normalized, canonical, source, source_type, cols) == [raised |-> raised, normalized |-> normalized, canonical |-> canonical, source |-> source, source_type |-> source_type, cols |-> cols]

\* The candidates present among the columns, in the order of the candidates:
\* the loop returns the first.
_pick_first_present(cols, candidates) == SelectSeq(candidates, LAMBDA c : Lower(c) \in DOMAIN cols)

normalize_geometry_view_always_rewrites(rel, explicit_canonical, binds) ==
    LET cols == _duckdb_cols(rel)
        canonical == IF explicit_canonical # None THEN explicit_canonical ELSE guess_canonical_by_columns(cols)
    IN  IF canonical = None THEN NormResult(FALSE, FALSE, None, None, None, rel)
        ELSE IF canonical \notin DOMAIN alias_map THEN NormResult(TRUE, FALSE, None, None, None, <<>>)
        ELSE IF Lower(canonical) \in DOMAIN cols
             THEN NormResult(FALSE, TRUE, canonical, canonical, cols[Lower(canonical)], SelectSeq(rel, LAMBDA c : Lower(c.name) # Lower(canonical)) \o <<Col(canonical, "GEOMETRY")>>)
             ELSE NormResult(FALSE, FALSE, canonical, None, None, rel)

normalize_geometry_view_null_canonical(rel, explicit_canonical, binds) ==
    LET cols == _duckdb_cols(rel)
        canonical == IF explicit_canonical # None THEN explicit_canonical ELSE guess_canonical_by_columns(cols)
        bound(t) == t = "VARCHAR" \/ binds
    IN  IF canonical = None THEN NormResult(FALSE, FALSE, None, None, None, rel)
        ELSE IF canonical \notin DOMAIN alias_map THEN NormResult(TRUE, FALSE, None, None, None, <<>>)
        ELSE IF Lower(canonical) \in DOMAIN cols
             THEN IF cols[Lower(canonical)] = "GEOMETRY" THEN NormResult(FALSE, FALSE, canonical, canonical, "GEOMETRY", rel)
                  ELSE IF ~bound(cols[Lower(canonical)]) THEN NormResult(TRUE, FALSE, None, None, None, <<>>)
                  ELSE NormResult(FALSE, TRUE, canonical, canonical, cols[Lower(canonical)], SelectSeq(rel, LAMBDA c : Lower(c.name) # Lower(canonical)) \o <<Col(canonical, "GEOMETRY")>>)
             ELSE IF Len(_pick_first_present(cols, alias_map[canonical])) = 0 THEN NormResult(FALSE, TRUE, canonical, None, None, rel \o <<Col(canonical, "GEOMETRY")>>)
                  ELSE IF ~bound(cols[Lower(_pick_first_present(cols, alias_map[canonical])[1])]) THEN NormResult(TRUE, FALSE, None, None, None, <<>>)
                  ELSE NormResult(FALSE, TRUE, canonical, _pick_first_present(cols, alias_map[canonical])[1], cols[Lower(_pick_first_present(cols, alias_map[canonical])[1])], rel \o <<Col(canonical, "GEOMETRY")>>)

\* The outcome of normalize_geometry_view on the relation rel: what it returns
\* and the columns of dst_view.  alias_map[canonical] raises KeyError for a
\* canonical name that is not one of its keys, before any view is created.
\* The coercion expression is written for text and binary columns; on a
\* source column of another type the engine binds it (binds) or rejects the
\* view.
normalize_geometry_view(rel, explicit_canonical, binds) ==
    LET cols == _duckdb_cols(rel)
        canonical == IF explicit_canonical # None THEN explicit_canonical ELSE guess_canonical_by_columns(cols)
        bound(t) == t = "VARCHAR" \/ binds
    IN  IF canonical = None THEN NormResult(FALSE, FALSE, None, None, None, rel)
        ELSE IF canonical \notin DOMAIN alias_map THEN NormResult(TRUE, FALSE, None, None, None, <<>>)
        ELSE IF Lower(canonical) \in DOMAIN cols
             THEN IF cols[Lower(canonical)] = "GEOMETRY" THEN NormResult(FALSE, FALSE, canonical, canonical, "GEOMETRY", rel)
                  ELSE IF ~bound(cols[Lower(canonical)]) THEN NormResult(TRUE, FALSE, None, None, None, <<>>)
                  ELSE NormResult(FALSE, TRUE, canonical, canonical, cols[Lower(canonical)], SelectSeq(rel, LAMBDA c : Lower(c.name) # Lower(canonical)) \o <<Col(canonical, "GEOMETRY")>>)
             ELSE IF Len(_pick_first_present(cols, alias_map[canonical])) = 0 THEN NormResult(FALSE, FALSE, canonical, None, None, rel)
                  ELSE IF ~bound(cols[Lower(_pick_first_present(cols, alias_map[canonical])[1])]) THEN NormResult(TRUE, FALSE, None, None, None, <<>>)
                  ELSE NormResult(FALSE, TRUE, canonical, _pick_first_present(cols, alias_map[canonical])[1], cols[Lower(_pick_first_present(cols, alias_map[canonical])[1])], rel \o <<Col(canonical, "GEOMETRY")>>)

GeomNames == <<"lpis_geom", "gsa_geom", "gem", "geom", "GEOM", "geometry", "lpis_id", "gsa_id", "id">>

\* The relations of up to MaxCols columns, no two of one lower-cased name.
NormRelations ==
    LET picks == {s \in SeqsUpTo(DOMAIN GeomNames, MaxCols) : \A k \in 1..(Len(s) - 1) : s[k] < s[k + 1]}
        types(n) == IF n \in {"lpis_id", "gsa_id", "id"} THEN {"VARCHAR"} ELSE {"VARCHAR", "GEOMETRY", "BLOB"}
    IN  UNION {{r \in [DOMAIN s -> {Col(GeomNames[i], t) : i \in DOMAIN GeomNames, t \in {"VARCHAR", "GEOMETRY", "BLOB"}}] :
                    /\ \A k \in DOMAIN s : r[k].name = GeomNames[s[k]] /\ r[k].ctype \in types(r[k].name)
                    /\ \A j, k \in DOMAIN s : j # k => Lower(r[j].name) # Lower(r[k].name)} : s \in picks}

InitNorm ==
    \E r \in NormRelations, e \in {None, "lpis_geom", "gsa_geom", "parcel_geom"} :
        /\ pc = "norm_first"
        /\ nrm = [cols |-> r, explicit |-> e, runs |-> <<>>]
        /\ StagerIdle /\ con = NoCatalog /\ ld = NoLoad /\ sx = NoSpatial /\ rp = NoRedact
        /\ PipelineIdle

\* normalize_geometry_view(con, src_view, dst_view, explicit_canonical)
NormFirst ==
    /\ pc = "norm_first"
    /\ \E binds \in BOOLEAN :
          LET r == normalize_geometry_view(nrm.cols, nrm.explicit, binds)
          IN  nrm' = [nrm EXCEPT !.runs = <<r>>] /\ pc' = IF r.raised THEN "norm_done" ELSE "norm_second"
    /\ UNCHANGED <<tpl, env, view, engine_result, vr, rep, exit_status, cleanups, arc, tmp, out, con, ld, sx, rp>>

\* normalize_geometry_view on the dst_view of the first run, with the same
\* explicit_canonical.
NormSecond ==
    /\ pc = "norm_second"
    /\ \E binds \in BOOLEAN :
          nrm' = [nrm EXCEPT !.runs = Append(@, normalize_geometry_view(nrm.runs[1].cols, nrm.explicit, binds))]
    /\ pc' = "norm_done"
    /\ UNCHANGED <<tpl, env, view, engine_result, vr, rep, exit_status, cleanups, arc, tmp, out, con, ld, sx, rp>>

NextNorm == NormFirst \/ NormSecond

SpecNorm == InitNorm /\ [][NextNorm]_vars

(***************************************************************************)
(* gpkg_adapter.py, shapefile_adapter.py: the chunked copy into a          *)
(* temporary table and the view over it                                    *)
(***************************************************************************)
\* Largest number of rows of a source layer, and largest chunk size (the
\* adapters read chunks of 200000 rows).
MaxSrcRows == 3

MaxStep == 2

\* f"{view_name}_raw"
RawName(view_name) == IF view_name = "v" THEN "v_raw" ELSE "w_raw"

Relvar(kind, cols, rows) == [kind |-> kind, cols |-> cols, rows |-> rows]

\* CREATE ... name: the catalog with the relation name added or replaced.
Create(catalog, name, r) == [n \in DOMAIN catalog \cup {name} |-> IF n = name THEN r ELSE catalog[n]]

_guess_canonical(present_cols) ==
    IF "lpis_geom" \in DOMAIN present_cols THEN "lpis_geom"
    ELSE IF "gsa_geom" \in DOMAIN present_cols THEN "gsa_geom"
    ELSE IF "gem" \in DOMAIN present_cols THEN "gsa_geom"
    ELSE IF \E k \in DOMAIN present_cols : StartsWith(k, "gsa_") THEN "gsa_geom"
    ELSE IF \E k \in DOMAIN present_cols : StartsWith(k, "lpis_") THEN "lpis_geom"
    ELSE None

\* gpkg_adapter.py: the outcome of _normalize_geometry_view on the columns rel.
_normalize_geometry_view(rel, explicit_canonical) ==
    LET cols == _duckdb_cols(rel)
        canonical == IF explicit_canonical # None THEN explicit_canonical ELSE _guess_canonical(cols)
    IN  IF canonical = None THEN NormResult(FALSE, FALSE, None, None, None, rel)
        ELSE IF Lower(canonical) \in DOMAIN cols THEN NormResult(FALSE, FALSE, canonical, canonical, cols[Lower(canonical)], rel)
        ELSE IF Len(_pick_first_present(cols, alias_map[canonical])) = 0 THEN NormResult(FALSE, FALSE, canonical, None, None, rel)
        ELSE NormResult(FALSE, TRUE, canonical, _pick_first_present(cols, alias_map[canonical])[1], cols[Lower(_pick_first_present(cols, alias_map[canonical])[1])], rel \o <<Col(canonical, "GEOMETRY")>>)

\* cols = needed_cols or present; cols = [c for c in cols if c in present]
\* (gpkg_adapter.py 163-165 and 186-188, shapefile_adapter.py 37-46).  An empty
\* needed_cols stands for None as well.
selected_columns(needed_cols, fields) == SelectSeq(IF needed_cols # <<>> THEN needed_cols ELSE fields, LAMBDA c : InSeq(c, fields))

\* The text columns of the names cols.
TextCols(cols) == [i \in DOMAIN cols |-> Col(cols[i], "VARCHAR")]

fetchmany_ignores_offset(src_rows, offset, step) == [i \in 1..Min(step, src_rows) |-> i]

\* The batch read at offset: the rows offset+1 .. offset+step of the source,
\* as far as it has them (LIMIT step OFFSET offset; skip_features, max_features).
fetchmany(src_rows, offset, step) == [i \in 1..Min(step, IF src_rows > offset THEN src_rows - offset ELSE 0) |-> offset + i]

fallback_diag_without_probe(diag, offset) == [mode |-> "chunked_copy", error |-> FALSE, fallback_loaded_rows |-> offset]

\* {**diag, "fallback_loaded_rows": offset, ...}
fallback_diag(diag, offset) == [diag EXCEPT !.fallback_loaded_rows = offset]

\* The state at the entry of load_gpkg_view and of load_shapefile_into_duck,
\* (attach records how the sqlite_scanner path ended, diag is the dict diag)
\* for three layers and three lists of needed columns.  src_cols are the
\* columns the chunked copy reads: the selected ones, and in load_gpkg_view
\* (189-190) the first column of the layer when none is selected.
\* attachable says whether the sqlite extension installs, loads and attaches
\* the file; spatial whether the connection has the functions ST_GeomFromWKB
\* and ST_GeomFromText of the coercion expression.
InitLoad ==
    \E a \in {"gpkg", "shapefile"}, v \in {"v", "w"}, t \in {"_shape_tmp", "_gpkg_tmp", "t"}, n \in 0..MaxSrcRows, st \in 1..MaxStep,
       counted, attachable, spatial \in BOOLEAN, cg \in {None, "lpis_geom"},
       fields \in {<<"id">>, <<"lpis_id", "geom">>, <<"lpis_id", "lpis_geom">>}, needed_cols \in {<<>>, <<"lpis_id", "lpis_geom">>, <<"parcel">>} :
        /\ a = "gpkg" => t = "_gpkg_tmp"
        /\ a = "shapefile" => (t # "_gpkg_tmp" /\ counted /\ cg = None /\ ~attachable /\ ~spatial /\ (needed_cols = <<>> \/ selected_columns(needed_cols, fields) # <<>>))
        /\ pc = IF a = "gpkg" THEN "ld_attach" ELSE "ld_loop"
        /\ ld = [adapter |-> a, view_name |-> v, table_name |-> t, present |-> fields, needed_cols |-> needed_cols,
                 attachable |-> attachable, spatial |-> spatial, attach |-> "untried",
                 src_cols |-> TextCols(IF a = "gpkg" /\ selected_columns(needed_cols, fields) = <<>> THEN SubSeq(fields, 1, 1) ELSE selected_columns(needed_cols, fields)),
                 src_rows |-> n, step |-> st,
                 total |-> IF a = "gpkg" /\ counted THEN n ELSE NoneN, canonical_geometry |-> cg,
                 offset |-> 0, created |-> FALSE, total_rows |-> 0, batches |-> <<>>, copied |-> <<>>, diag |-> [mode |-> None, error |-> FALSE, fallback_loaded_rows |-> NoneN],
                 status |-> "running", loaded_rows |-> NoneN, normalized |-> FALSE, row_count |-> NoneN]
        /\ con = NoCatalog
        /\ StagerIdle /\ nrm = NoNorm /\ sx = NoSpatial /\ rp = NoRedact
        /\ PipelineIdle

\* gpkg_adapter.py 156-184: the sqlite_scanner path.  It returns the view over
\* the attached layer (select_list is "*" when no column is selected), or any
\* exception of it is caught and kept in diag, and the chunked copy follows.
LdAttach ==
    /\ pc = "ld_attach"
    /\ LET cols == selected_columns(ld.needed_cols, ld.present)
           raw == Relvar("view", TextCols(IF cols = <<>> THEN ld.present ELSE cols), ld.src_rows)
           info == _normalize_geometry_view(raw.cols, ld.canonical_geometry)
           failed == [ld EXCEPT !.attach = "failed", !.diag = [mode |-> "sqlite_scanner_failed", error |-> TRUE, fallback_loaded_rows |-> NoneN]]
       IN  IF ~ld.attachable THEN con' = con /\ ld' = failed /\ pc' = "ld_loop"
           ELSE IF info.normalized /\ ~ld.spatial THEN con' = Create(con, RawName(ld.view_name), raw) /\ ld' = failed /\ pc' = "ld_loop"
           ELSE /\ con' = Create(Create(con, RawName(ld.view_name), raw), ld.view_name, Relvar("view", info.cols, ld.src_rows))
                /\ ld' = [ld EXCEPT !.attach = "returned", !.status = "returned", !.normalized = info.normalized, !.diag = [mode |-> "sqlite_scanner", error |-> FALSE, fallback_loaded_rows |-> NoneN]]
                /\ pc' = "ld_probe"
    /\ UNCHANGED <<tpl, env, view, engine_result, vr, rep, exit_status, cleanups, arc, tmp, out, nrm, sx, rp>>

\* One pass of the while loop: gpkg_adapter.py 203-222, shapefile_adapter.py 52-70.
LdChunk ==
    /\ pc = "ld_loop"
    /\ LET rows == fetchmany(ld.src_rows, ld.offset, ld.step)
           table == IF ld.created THEN con[ld.table_name] ELSE Relvar("table", ld.src_cols, 0)
       IN  IF rows = <<>>
           THEN con' = con /\ ld' = [ld EXCEPT !.batches = Append(@, 0)] /\ pc' = "ld_post"
           ELSE /\ con' = Create(con, ld.table_name, [table EXCEPT !.rows = @ + Len(rows)])
                /\ ld' = [ld EXCEPT !.created = TRUE, !.offset = @ + Len(rows), !.total_rows = IF ld.adapter = "shapefile" THEN @ + Len(rows) ELSE @,
                                    !.batches = Append(@, Len(rows)), !.copied = @ \o rows]
                /\ pc' = IF ld.adapter = "gpkg" /\ ld.total # NoneN /\ ld.offset + Len(rows) >= ld.total THEN "ld_post" ELSE "ld_loop"
    /\ UNCHANGED <<tpl, env, view, engine_result, vr, rep, exit_status, cleanups, arc, tmp, out, nrm, sx, rp>>

\* After the loop: the dummy table of an empty source, the view over the
\* table, the geometry normalization (gpkg), and the diagnostics returned:
\* gpkg_adapter.py 224-237, shapefile_adapter.py 72-77.
LdPost ==
    /\ pc = "ld_post"
    /\ LET dummy == IF ld.adapter = "gpkg" THEN "_gpkg_tmp" ELSE "_shape_tmp"
           c1 == IF ld.created THEN con ELSE Create(con, dummy, Relvar("table", <<Col("_dummy", "VARCHAR")>>, 0))
       IN  IF ld.table_name \notin DOMAIN c1
           THEN con' = c1 /\ ld' = [ld EXCEPT !.status = "raised"]
           ELSE IF ld.adapter = "shapefile"
           THEN /\ con' = Create(c1, ld.view_name, Relvar("view", c1[ld.table_name].cols, c1[ld.table_name].rows))
                /\ ld' = [ld EXCEPT !.status = "returned", !.loaded_rows = ld.total_rows]
           ELSE LET info == _normalize_geometry_view(c1[ld.table_name].cols, ld.canonical_geometry)
                    c2 == Create(c1, RawName(ld.view_name), Relvar("view", c1[ld.table_name].cols, c1[ld.table_name].rows))
                IN  IF info.normalized /\ ~ld.spatial
                    THEN con' = c2 /\ ld' = [ld EXCEPT !.status = "raised"]
                    ELSE /\ con' = Create(c2, ld.view_name, Relvar("view", info.cols, c1[ld.table_name].rows))
                         /\ ld' = [ld EXCEPT !.status = "returned", !.loaded_rows = ld.offset, !.normalized = info.normalized, !.diag = fallback_diag(ld.diag, ld.offset)]
    /\ pc' = "ld_probe"
    /\ UNCHANGED <<tpl, env, view, engine_result, vr, rep, exit_status, cleanups, arc, tmp, out, nrm, sx, rp>>

\* cli.py 275-279: SELECT COUNT(*) of the target view; None when it fails.
LdProbe ==
    /\ pc = "ld_probe"
    /\ ld' = [ld EXCEPT !.row_count = IF ld.view_name \in DOMAIN con THEN con[ld.view_name].rows ELSE NoneN]
    /\ pc' = "ld_done"
    /\ UNCHANGED <<tpl, env, view, engine_result, vr, rep, exit_status, cleanups, arc, tmp, out, nrm, con, sx, rp>>

NextLoad == LdAttach \/ LdChunk \/ LdPost \/ LdProbe

SpecLoad == InitLoad /\ [][NextLoad]_vars

\* The adapter is sequential code: a step that can be taken is taken.
SpecLoadLive == InitLoad /\ [][NextLoad]_vars /\ WF_vars(NextLoad)

(***************************************************************************)
(* duck.py: ensure_spatial_extension, called again and again on one        *)
(* connection                                                              *)
(***************************************************************************)
\* Largest number of calls of ensure_spatial_extension on the connection.
MaxCalls == 3

\* con in _SPATIAL_EXTENSION_LOADED (False for an object that cannot be weakly
\* referenced), or else getattr(con, "_validator_spatial_loaded", False).
_has_loaded_spatial_extension(c) == (c.weak /\ c.in_set) \/ c.marker

_mark_spatial_extension_loaded_attribute_only(c) == [c EXCEPT !.marker = @ \/ c.attr]

\* _SPATIAL_EXTENSION_LOADED.add(con), which raises TypeError for an object
\* that cannot be weakly referenced, and setattr, which raises AttributeError
\* for an object without custom attributes; both exceptions are passed over.
_mark_spatial_extension_loaded(c) == [c EXCEPT !.in_set = @ \/ c.weak, !.marker = @ \/ c.attr]

\* What one call recorded: the calls of install_extension and load_extension
\* it made, whether the extension got loaded, and how it ended.
CallRecord(first_fails, installs, loads, loaded, status) == [first_fails |-> first_fails, installs |-> installs, loads |-> loads, loaded |-> loaded, status |-> status]

\* One call on the connection c: first_fails, install_fails and retry_fails
\* say which of load_extension, install_extension and the second
\* load_extension raise duckdb.Error.
ensure_spatial_extension(c, first_fails, install_fails, retry_fails) ==
    IF _has_loaded_spatial_extension(c) THEN [conn |-> c, rec |-> CallRecord(first_fails, 0, 0, FALSE, "returned")]
    ELSE IF ~first_fails THEN [conn |-> _mark_spatial_extension_loaded(c), rec |-> CallRecord(first_fails, 0, 1, TRUE, "returned")]
    ELSE IF install_fails THEN [conn |-> c, rec |-> CallRecord(first_fails, 1, 1, FALSE, "raised")]
    ELSE IF retry_fails THEN [conn |-> c, rec |-> CallRecord(first_fails, 1, 2, FALSE, "raised")]
    ELSE [conn |-> _mark_spatial_extension_loaded(c), rec |-> CallRecord(first_fails, 1, 2, TRUE, "returned")]

InitSpatial ==
    \E w, a \in BOOLEAN :
        /\ pc = "sx_call"
        /\ sx = [conn |-> [weak |-> w, attr |-> a, in_set |-> FALSE, marker |-> FALSE], log |-> <<>>]
        /\ StagerIdle /\ nrm = NoNorm /\ con = NoCatalog /\ ld = NoLoad /\ rp = NoRedact
        /\ PipelineIdle

EnsureSpatialExtension ==
    /\ pc = "sx_call"
    /\ Len(sx.log) < MaxCalls
    /\ \E first_fails, install_fails, retry_fails \in BOOLEAN :
          LET r == ensure_spatial_extension(sx.conn, first_fails, install_fails, retry_fails)
          IN  sx' = [conn |-> r.conn, log |-> Append(sx.log, r.rec)]
    /\ UNCHANGED <<pc, tpl, env, view, engine_result, vr, rep, exit_status, cleanups, arc, tmp, out, nrm, con, ld, rp>>

NextSpatial == EnsureSpatialExtension

SpecSpatial == InitSpatial /\ [][NextSpatial]_vars

(***************************************************************************)
(* reporting.py: redact_path, applied by build_report to the input path    *)
(***************************************************************************)
\* Largest number of path segments after the host of an input path.
MaxSegs == 1

\* The index of the first piece of p equal to sep, 0 when there is none.
Find(p, sep) == IF InSeq(sep, p) THEN CHOOSE i \in DOMAIN p : p[i] = sep /\ \A j \in 1..(i - 1) : p[j] # sep ELSE 0

\* p.split(sep, 1): the pieces before and after the first sep.
Before(p, sep) == SubSeq(p, 1, Find(p, sep) - 1)

After(p, sep) == SubSeq(p, Find(p, sep) + 1, Len(p))

redact_path(p) ==
    IF InSeq("@", p) /\ InSeq("://", p)
    THEN LET scheme == Before(p, "://")
             rest == After(p, "://")
         IN  IF InSeq("@", rest) /\ InSeq(":", Before(rest, "@"))
             THEN scheme \o <<"://", "***", "@">> \o After(rest, "@")
             ELSE p
    ELSE p

\* scheme://[userinfo@]host[:port][/segment...], and paths of the file system.
\* The userinfo components: none, a user or token alone, a user and password,
\* an empty password, a password that holds an "@".
InputPaths ==
    LET UserInfos == {<<>>, <<"user">>, <<"user", ":", "secret">>, <<"user", ":">>, <<"user", ":", "sec", "@", "ret">>}
        hosts == {<<"bucket">>, <<"bucket", ":", "9000">>}
        segs == {<<"/", "data.csv">>, <<"/", "d@ta.csv">>, <<"/", "d", ":", "ta.csv">>}
        tails == {Flatten(t) : t \in SeqsUpTo(segs, MaxSegs)}
        uris == {[path |-> <<sch, "://">> \o (IF u = <<>> THEN <<>> ELSE u \o <<"@">>) \o h \o t, userinfo |-> u] : sch \in {"s3", "https"}, u \in UserInfos, h \in hosts, t \in tails}
        files == {[path |-> t, userinfo |-> <<>>] : t \in tails \ {<<>>}}
    IN  uris \cup files

InitRedact ==
    \E i \in InputPaths :
        /\ pc = "rp_build"
        /\ rp = [path |-> i.path, userinfo |-> i.userinfo, reported |-> <<>>, built |-> FALSE]
        /\ StagerIdle /\ nrm = NoNorm /\ con = NoCatalog /\ ld = NoLoad /\ sx = NoSpatial
        /\ PipelineIdle

\* reporting.py 178-185: input = InputMeta(path = redact_path(input_meta["path"]))
BuildReportInput ==
    /\ pc = "rp_build"
    /\ rp' = [rp EXCEPT !.reported = redact_path(rp.path), !.built = TRUE]
    /\ pc' = "rp_done"
    /\ UNCHANGED <<tpl, env, view, engine_result, vr, rep, exit_status, cleanups, arc, tmp, out, nrm, con, ld, sx>>

NextRedact == BuildReportInput

SpecRedact == InitRedact /\ [][NextRedact]_vars

(***************************************************************************)
(* Properties                                                              *)
(***************************************************************************)
CodeSet(items) == {items[i].code : i \in DOMAIN items}

CountCode(items, code) == Cardinality({i \in DOMAIN items : items[i].code = code})

\* validate_with_duckdb was called on the loaded file and returned a result.
Returned == vr.called /\ ~vr.result.raised

TemplateNames == {tpl.columns[i].name : i \in DOMAIN tpl.columns}

FileNames == {env.file.cols[i] : i \in DOMAIN env.file.cols}

PresentTemplateSpecs == {cs \in {tpl.columns[i] : i \in DOMAIN tpl.columns} : cs.name \in FileNames}

C2_UnpackErrorExits2 ==
    (pc = "exited" /\ env.stage = "UnpackError") =>
        /\ rep.built /\ ~rep.report.ok
        /\ codes(rep.report) = <<"UNPACK_ERROR">>
        /\ exit_status = 2

\* C3: the result validate returns has ok = TRUE exactly when its errors list is
\* empty, whatever its warnings list holds, and so has the engine_result handed
\* to build_report and the report built from it, on every path.
C3_OkIffNoErrors ==
    /\ Returned => (vr.result.ok <=> Len(vr.result.errors) = 0)
    /\ pc \in {"build", "finish", "exited"} => (engine_result.ok <=> Len(engine_result.errors) = 0)
    /\ rep.built => (rep.report.ok <=> Len(rep.report.errors) = 0)

C3_Witness ==
    /\ pc = "exited" /\ Returned /\ vr.result.ok /\ rep.report.ok
    /\ CodeSet(vr.result.warnings) = {"EXTRA_COLUMNS", "DUPLICATES"}
    /\ CodeSet(rep.report.warnings) = {"EXTRA_COLUMNS", "DUPLICATES"}

\* The rows of the file a check of column cs would report, each counted from the
\* file and the template alone.
UncastRows(cs) == {i \in DOMAIN env.file.rows : _nonnull_predicate(env.file.rows[i], cs.name, env.file.types[cs.name], tpl.null_equivalents) /\ ~Castable(env.file.rows[i][cs.name], env.file.types[cs.name], DUCK_TYPES[cs.dtype])}

EnumRows(cs) == {i \in DOMAIN env.file.rows : _nonnull_predicate(env.file.rows[i], cs.name, env.file.types[cs.name], tpl.null_equivalents) /\ \A j \in DOMAIN cs.enum : env.file.rows[i][cs.name] # cs.enum[j].s}

RangeRows(cs) == {i \in DOMAIN env.file.rows : _nonnull_predicate(env.file.rows[i], cs.name, env.file.types[cs.name], tpl.null_equivalents) /\ Castable(env.file.rows[i][cs.name], env.file.types[cs.name], DUCK_TYPES[cs.dtype]) /\ ((cs.range.hasMin /\ ParseInt(env.file.rows[i][cs.name]) < cs.range.min) \/ (cs.range.hasMax /\ ParseInt(env.file.rows[i][cs.name]) > cs.range.max))}

NullRows(cs) == {i \in DOMAIN env.file.rows : _null_predicate(env.file.rows[i], cs.name, env.file.types[cs.name], tpl.null_equivalents)}

\* C4: the value-level checks never suppress one another: once the engine has
\* run, every issue a check finds on the file is among the errors of the run,
\* whatever the other checks found.
C4_ChecksIndependent ==
    (pc = "build" /\ vr.called) =>
        /\ \A cs \in PresentTemplateSpecs :
            /\ (cs.dtype \in DOMAIN DUCK_TYPES /\ UncastRows(cs) # {}) => "DTYPE_MISMATCH" \in CodeSet(engine_result.errors)
            /\ (cs.hasEnum /\ EnumRows(cs) # {}) => "ENUM_VIOLATION" \in CodeSet(engine_result.errors)
            /\ (cs.required /\ NullRows(cs) # {}) => "NULL_REQUIRED" \in CodeSet(engine_result.errors)
            /\ (cs.hasRange /\ cs.dtype \in DOMAIN DUCK_TYPES /\ RangeRows(cs) # {}) => "RANGE_VIOLATION" \in CodeSet(engine_result.errors)
        /\ \A i \in DOMAIN tpl.duplicate_checks :
              (SeqSet(tpl.duplicate_checks[i].keys) \subseteq FileNames /\ DupGroups(env.file, tpl.duplicate_checks[i].keys) # {}) =>
                  "DUPLICATES" \in CodeSet(IF severity(tpl.duplicate_checks[i]) = "error" THEN engine_result.errors ELSE engine_result.warnings)

\* The entries of the DTYPE_MISMATCH issues of a list that name column c with a
\* bad-row count.
MismatchEntries(items, c) == {d \in UNION {{items[i].details[j] : j \in DOMAIN items[i].details} : i \in {k \in DOMAIN items : items[k].code = "DTYPE_MISMATCH"}} : d.column = c /\ d.invalid_rows # NoneN}

ScenarioTemplate == tpl.columns = <<ColSpec("id", "int64", TRUE), [ColSpec("status", "string", FALSE) EXCEPT !.hasEnum = TRUE, !.enum = <<Lit("A"), Lit("B")>>]>>

\* One non-numeric id, one status 'C', every other cell valid.
ScenarioFile ==
    /\ env.file.cols = <<"id", "status">> /\ env.file.types["id"] = "VARCHAR"
    /\ Cardinality({i \in DOMAIN env.file.rows : env.file.rows[i]["id"] = "x"}) = 1
    /\ Cardinality({i \in DOMAIN env.file.rows : env.file.rows[i]["status"] = "C"}) = 1
    /\ \A i \in DOMAIN env.file.rows : env.file.rows[i]["id"] \in {"1", "9", "x"} /\ env.file.rows[i]["status"] \in {"A", "C"}

C6_OneDtypeMismatch == Returned => CountCode(vr.result.errors, "DTYPE_MISMATCH") <= 1

LogicalTypes == {"int64", "float64", "string", "bool", "date", "timestamp", "geometry"}

\* The columns a DTYPE_MISMATCH issue reports for an unrecognised dtype.
UnknownTypeColumns(items) == {d.column : d \in {e \in UNION {{items[i].details[j] : j \in DOMAIN items[i].details} : i \in {k \in DOMAIN items : items[k].code = "DTYPE_MISMATCH"}} : e.dtype # None}}

\* C7: a present template column is reported as of unrecognised type exactly
\* when its dtype is none of the seven logical types; a geometry column never
\* contributes to DTYPE_MISMATCH.
C7_UnknownTypeIffNotDeclared ==
    Returned => \A cs \in PresentTemplateSpecs : cs.name \in UnknownTypeColumns(vr.result.errors) <=> cs.dtype \notin LogicalTypes

\* The text a cell holds when it equals a literal of the template.
LitText(v) == IF v.isStr THEN v.s ELSE PyStr(v.n)

\* C8: the null count of a present template column is the number of its rows
\* that are NULL or, for a VARCHAR column only, equal to a null-equivalent
\* literal of the template, string or number; for a column of another physical
\* type it is the number of NULL rows.
C8_NullCount ==
    Returned =>
        \A cs \in PresentTemplateSpecs :
            vr.result.nulls[cs.name] = Cardinality({i \in DOMAIN env.file.rows :
                \/ env.file.rows[i][cs.name] = NULL
                \/ env.file.types[cs.name] = "VARCHAR" /\ \E j \in DOMAIN tpl.null_equivalents : env.file.rows[i][cs.name] = LitText(tpl.null_equivalents[j])})

\* C9: whenever validate returns, metrics.nulls has an entry for exactly the
\* template columns present in the relation, also when no issue was emitted,
\* and the run's metrics carry it.
C9_NullMetricPerPresentColumn ==
    /\ Returned => (vr.result.hasNulls /\ DOMAIN vr.result.nulls = TemplateNames \cap FileNames)
    /\ (Returned /\ pc \in {"build", "finish", "exited"}) => (engine_result.metrics.hasNulls /\ DOMAIN engine_result.metrics.nulls = TemplateNames \cap FileNames)

C9_Witness ==
    /\ Returned /\ Len(vr.result.errors) = 0 /\ Len(vr.result.warnings) = 0
    /\ Cardinality(TemplateNames \cap FileNames) = 2 /\ Len(env.file.rows) = 2
    /\ \A c \in DOMAIN vr.result.nulls : vr.result.nulls[c] = 0

\* C10: validate emits one MISSING_COLUMNS error exactly when a template column
\* is absent from the relation, listing exactly the absent ones; it emits one
\* EXTRA_COLUMNS warning exactly when allow_extra_columns is false and the
\* relation has a column the template does not name, listing exactly those;
\* EXTRA_COLUMNS is never an error.
C10_SchemaDiff ==
    Returned =>
        /\ CountCode(vr.result.errors, "MISSING_COLUMNS") = (IF TemplateNames \ FileNames # {} THEN 1 ELSE 0)
        /\ \A i \in DOMAIN vr.result.errors : vr.result.errors[i].code = "MISSING_COLUMNS" => SeqSet(vr.result.errors[i].columns) = TemplateNames \ FileNames
        /\ CountCode(vr.result.warnings, "EXTRA_COLUMNS") = (IF tpl.allow_extra_columns = "false" /\ FileNames \ TemplateNames # {} THEN 1 ELSE 0)
        /\ \A i \in DOMAIN vr.result.warnings : vr.result.warnings[i].code = "EXTRA_COLUMNS" => SeqSet(vr.result.warnings[i].columns) = FileNames \ TemplateNames
        /\ "EXTRA_COLUMNS" \notin CodeSet(vr.result.errors)
        /\ "MISSING_COLUMNS" \notin CodeSet(vr.result.warnings)

C10_Witness ==
    /\ Returned
    /\ "MISSING_COLUMNS" \in CodeSet(vr.result.errors) /\ "EXTRA_COLUMNS" \in CodeSet(vr.result.warnings)
    /\ Cardinality(TemplateNames \ FileNames) = 2 /\ FileNames \ TemplateNames = {"extra"}

\* The rows of column c of the file that are null by the null accounting: NULL,
\* or in a VARCHAR column equal to a null-equivalent literal, string or number.
AccountedNullRows(c) == {i \in DOMAIN env.file.rows :
    \/ env.file.rows[i][c] = NULL
    \/ env.file.types[c] = "VARCHAR" /\ \E j \in DOMAIN tpl.null_equivalents : env.file.rows[i][c] = LitText(tpl.null_equivalents[j])}

IssuesOf(items, code, c) == {i \in DOMAIN items : items[i].code = code /\ items[i].column = c}

\* C11: for a present column that declares an enum, validate emits ENUM_VIOLATION
\* exactly when n > 0 of its rows are non-null by the null accounting (NULLs and
\* null-equivalent values never counted) and hold a value outside the declared
\* set, and the issue carries invalid_rows = n.
C11_EnumViolation ==
    Returned =>
        \A cs \in PresentTemplateSpecs :
            cs.hasEnum =>
                LET n == Cardinality({i \in DOMAIN env.file.rows \ AccountedNullRows(cs.name) : \A j \in DOMAIN cs.enum : env.file.rows[i][cs.name] # cs.enum[j].s})
                IN  /\ Cardinality(IssuesOf(vr.result.errors, "ENUM_VIOLATION", cs.name)) = (IF n > 0 THEN 1 ELSE 0)
                    /\ \A i \in IssuesOf(vr.result.errors, "ENUM_VIOLATION", cs.name) : vr.result.errors[i].invalid_rows = n
                    /\ IssuesOf(vr.result.warnings, "ENUM_VIOLATION", cs.name) = {}

\* C12: for a present column of a recognised dtype that declares a range, a call
\* of validate emits RANGE_VIOLATION exactly when n > 0 of its non-null rows hold
\* a value that, cast to the logical type, is below min or above max, with
\* invalid_rows = n; an absent bound is violated by no row.
C12_RangeViolation ==
    vr.called =>
        \A cs \in PresentTemplateSpecs :
            (cs.hasRange /\ cs.dtype \in DOMAIN DUCK_TYPES) =>
                LET n == Cardinality({i \in DOMAIN env.file.rows \ AccountedNullRows(cs.name) :
                            /\ Castable(env.file.rows[i][cs.name], env.file.types[cs.name], DUCK_TYPES[cs.dtype])
                            /\ \/ cs.range.hasMin /\ ParseInt(env.file.rows[i][cs.name]) < cs.range.min
                               \/ cs.range.hasMax /\ ParseInt(env.file.rows[i][cs.name]) > cs.range.max})
                IN  /\ Cardinality(IssuesOf(vr.result.errors, "RANGE_VIOLATION", cs.name)) = (IF n > 0 THEN 1 ELSE 0)
                    /\ \A i \in IssuesOf(vr.result.errors, "RANGE_VIOLATION", cs.name) : vr.result.errors[i].invalid_rows = n
                    /\ IssuesOf(vr.result.warnings, "RANGE_VIOLATION", cs.name) = {}

\* The DUPLICATES issues of a list raised for the keys of a duplicate check.
DupIssuesOf(items, keys) == {i \in DOMAIN items : items[i].code = "DUPLICATES" /\ items[i].keys = keys}

\* The number of rows of the file whose key columns hold the values vals.
Occurrences(keys, vals) == Cardinality({i \in DOMAIN env.file.rows : \A j \in DOMAIN keys : env.file.rows[i][keys[j]] = vals[j]})

\* C13: a duplicate check with a key column absent from the file emits nothing.
\* A check with every key present emits one DUPLICATES issue exactly when some
\* key tuple occurs in more than one row, among the errors when its severity is
\* error and among the warnings when it is warning; the issue carries at most
\* sample_limit examples (1000 by default), each the key values and the
\* occurrence count (> 1) of one distinct group.
C13_Duplicates ==
    Returned =>
        \A k \in DOMAIN tpl.duplicate_checks :
            LET d == tpl.duplicate_checks[k]
                sev == IF d.severity = None THEN "error" ELSE d.severity
                limit == IF d.sample_limit = NoneN THEN 1000 ELSE d.sample_limit
                own == IF sev = "error" THEN vr.result.errors ELSE vr.result.warnings
                other == IF sev = "error" THEN vr.result.warnings ELSE vr.result.errors
                duplicated == \E i, j \in DOMAIN env.file.rows : i # j /\ \A c \in SeqSet(d.keys) : env.file.rows[i][c] = env.file.rows[j][c]
            IN  IF ~(SeqSet(d.keys) \subseteq FileNames)
                THEN DupIssuesOf(own, d.keys) = {} /\ DupIssuesOf(other, d.keys) = {} /\ vr.result.ok
                ELSE /\ Cardinality(DupIssuesOf(own, d.keys)) = (IF duplicated THEN 1 ELSE 0)
                     /\ DupIssuesOf(other, d.keys) = {}
                     /\ \A i \in DupIssuesOf(own, d.keys) :
                           /\ Len(own[i].examples) <= limit
                           /\ \A a \in DOMAIN own[i].examples : own[i].examples[a].count > 1 /\ own[i].examples[a].count = Occurrences(d.keys, own[i].examples[a].vals)
                           /\ \A a, b \in DOMAIN own[i].examples : a # b => own[i].examples[a].vals # own[i].examples[b].vals

\* C14: a run whose format has a pre-flight integrity probe and whose probe
\* reports corruption exits with a report holding a single CORRUPTED_FILE error
\* and no other, ok = false and exit code 2, without the Validation Engine ever
\* being called: no null metrics appear.
C14_ProbeCorruption ==
    (pc = "exited" /\ env.stage \in {"plain", "unpacked"} /\ env.fmt \in {"GEOPARQUET", "GEOPACKAGE", "SHAPEFILE"} /\ env.corrupt) =>
        /\ codes(rep.report) = <<"CORRUPTED_FILE">>
        /\ ~rep.report.ok
        /\ exit_status = 2
        /\ ~vr.called
        /\ ~rep.report.metrics.hasNulls

\* C15: once the template is loaded, no run ends before build_report: a run
\* that has ended has built its report and ended by SystemExit with the exit
\* code of that report, whichever stage failed.
C15_AlwaysReport ==
    pc \in {"exited", "aborted"} => (rep.built /\ pc = "exited" /\ exit_status = exit_code(rep.report))

\* C16: a run in which maybe_decompress returned has called the cleanup it
\* returned exactly once when it ends, on every path.
C16_CleanupOnce ==
    /\ env.stage \in {"plain", "unpacked"} => cleanups <= 1
    /\ (pc \in {"exited", "aborted"} /\ env.stage \in {"plain", "unpacked"}) => cleanups = 1

ZipOrTar == arc.exists /\ arc.name \in {"data.zip", "data.tar.gz"} /\ arc.readable

\* C17: for a zip or tar archive no member is extracted before every member
\* name was checked; when a member name is an absolute path or holds a ".."
\* segment, maybe_decompress raises UnpackError, no member of the archive is
\* ever extracted and no file is written outside the temporary directory.
C17_ArchiveSafety ==
    /\ (tmp.files # {} \/ tmp.outside # {}) => pc \in {"md_root", "md_done"}
    /\ tmp.outside = {}
    /\ (ZipOrTar /\ \E m \in arc.members : m.abs \/ InSeq("..", m.segs)) =>
          /\ tmp.files = {}
          /\ pc = "md_done" => out.status = "UnpackError"

\* The extracted files are one legacy bundle: one primary .shp file, its .dbf
\* and .shx sidecars, and no file of another stem.
OneBundle(files) ==
    \E q \in files :
        /\ Suffix(q[Len(q)]) = ".shp"
        /\ \A r \in files : with_suffix_none(r) = with_suffix_none(q) /\ (Suffix(r[Len(r)]) = ".shp" => r = q)
        /\ \E r \in files : Suffix(r[Len(r)]) = ".dbf"
        /\ \E r \in files : Suffix(r[Len(r)]) = ".shx"

\* C18: after an extraction that succeeded, one extracted file is the root; several files give
\* the .shp file as root exactly when they are one legacy bundle, and
\* UnpackError otherwise; no file at all gives UnpackError.
C18_DatasetRoot ==
    (pc = "md_done" /\ ZipOrTar /\ out.status # "Exception" /\ ~\E m \in arc.members : UnsafeMember(m)) =>
        /\ Cardinality(tmp.files) = 0 => out.status = "UnpackError"
        /\ Cardinality(tmp.files) = 1 => (out.status = "returned" /\ out.path.in_tmp /\ out.path.segs \in tmp.files)
        /\ Cardinality(tmp.files) > 1 =>
              /\ out.status \in {"returned", "UnpackError"}
              /\ out.status = "returned" <=> OneBundle(tmp.files)
              /\ out.status = "returned" => (out.path.in_tmp /\ out.path.segs \in tmp.files /\ Suffix(out.path.segs[Len(out.path.segs)]) = ".shp")

\* C20: when a first run of normalize_geometry_view returned canonical = c, a
\* second run on its output view returns normalized = false and canonical = c,
\* and the columns of the second output are those of the first.
C20_NormalizerIdempotent ==
    (pc = "norm_done" /\ Len(nrm.runs) >= 1 /\ ~nrm.runs[1].raised) =>
        /\ Len(nrm.runs) = 2
        /\ ~nrm.runs[2].raised
        /\ ~nrm.runs[2].normalized
        /\ nrm.runs[2].canonical = nrm.runs[1].canonical
        /\ nrm.runs[2].cols = nrm.runs[1].cols

C20_Witness ==
    /\ pc = "norm_done" /\ Len(nrm.runs) = 2
    /\ nrm.runs[1].normalized /\ nrm.runs[1].canonical = "gsa_geom" /\ nrm.runs[1].source = "gem"
    /\ nrm.explicit = None
    /\ ~nrm.runs[2].normalized /\ nrm.runs[2].canonical = "gsa_geom"

\* C21: when the container adapter has returned and the raw relation it read
\* has the canonical column with a physical type that is not geometry (both
\* of its paths read every column as text), its normalizer reported
\* normalized = true and the
\* relation of the target view has exactly one column of the canonical name,
\* of geometry type.
C21_CanonicalRebuilt ==
    (pc = "ld_done" /\ ld.adapter = "gpkg" /\ ld.status = "returned" /\ ld.src_rows > 0
        /\ \E i \in DOMAIN con[RawName(ld.view_name)].cols : con[RawName(ld.view_name)].cols[i] = Col("lpis_geom", "VARCHAR")) =>
        /\ ld.normalized
        /\ Cardinality({i \in DOMAIN con[ld.view_name].cols : Lower(con[ld.view_name].cols[i].name) = "lpis_geom"}) = 1
        /\ \A i \in DOMAIN con[ld.view_name].cols : Lower(con[ld.view_name].cols[i].name) = "lpis_geom" => con[ld.view_name].cols[i].ctype = "GEOMETRY"

\* The lower-cased column names of the relation the normalizer was run on.
NormNames == {Lower(nrm.cols[i].name) : i \in DOMAIN nrm.cols}

\* C22: after the first run of normalize_geometry_view, (a) when no canonical
\* name was requested and no column names a family (lpis_geom, gsa_geom, gem,
\* an lpis_ or gsa_ prefix), the destination has the columns of the source and
\* the outcome is normalized = false with canonical, source and source_type
\* None; (b) when a canonical name is determined (requested, or else inferred
\* from the columns) and neither it nor any of its aliases is a column, the
\* destination has the columns of the source and the outcome is normalized =
\* false with that canonical and source and source_type None.  The canonical
\* names of (b) are lpis_geom and gsa_geom, the names that have aliases.
C22_PassThrough ==
    Len(nrm.runs) >= 1 =>
        LET r == nrm.runs[1]
            hinted == \E n \in NormNames : n \in {"lpis_geom", "gsa_geom", "gem", "lpis_id", "gsa_id"}
            determined == IF nrm.explicit # None THEN nrm.explicit
                          ELSE IF "lpis_geom" \in NormNames THEN "lpis_geom"
                          ELSE IF NormNames \cap {"gsa_geom", "gem", "gsa_id"} # {} THEN "gsa_geom"
                          ELSE "lpis_geom"
            family == IF determined = "lpis_geom" THEN {"lpis_geom", "geom", "geometry"} ELSE {"gsa_geom", "gem", "geometry"}
        IN  /\ (nrm.explicit = None /\ ~hinted) =>
                  r = NormResult(FALSE, FALSE, None, None, None, nrm.cols)
            /\ ((nrm.explicit # None \/ hinted) /\ determined \in {"lpis_geom", "gsa_geom"} /\ NormNames \cap family = {}) =>
                  r = NormResult(FALSE, FALSE, determined, None, None, nrm.cols)

C22_Witness ==
    /\ Len(nrm.runs) >= 1
    /\ nrm.explicit = None
    /\ NormNames = {"gsa_id", "geom"}
    /\ nrm.runs[1] = NormResult(FALSE, FALSE, "gsa_geom", None, None, nrm.cols)

\* C23: after a call of normalize_geometry_view on a relation of text columns
\* (what the adapters read), whatever the canonical name requested, the call
\* has returned its outcome and the destination relation exists (it did not
\* raise), and a requested canonical name is the canonical of the outcome.
C23_StructuredOutcome ==
    (Len(nrm.runs) >= 1 /\ \A i \in DOMAIN nrm.cols : nrm.cols[i].ctype = "VARCHAR") =>
        /\ ~nrm.runs[1].raised
        /\ nrm.explicit # None => nrm.runs[1].canonical = nrm.explicit

\* C24: on a connection that can be weakly referenced or accepts custom
\* attributes, over any sequence of calls of ensure_spatial_extension: (a) the
\* extension is loaded by at most one call; (b) a call whose first load
\* attempt failed, and whose install and retry did not, made exactly one
\* install and two load attempts and returned; (c) every call after one that
\* returned makes no install and no load attempt and returns.
C24_LoadedOnce ==
    (sx.conn.weak \/ sx.conn.attr) =>
        /\ Cardinality({k \in DOMAIN sx.log : sx.log[k].loaded}) <= 1
        /\ \A k \in DOMAIN sx.log :
              (sx.log[k].first_fails /\ sx.log[k].loaded) => (sx.log[k].installs = 1 /\ sx.log[k].loads = 2 /\ sx.log[k].status = "returned")
        /\ \A j, k \in DOMAIN sx.log :
              (j < k /\ sx.log[j].status = "returned") => (sx.log[k].installs = 0 /\ sx.log[k].loads = 0 /\ sx.log[k].status = "returned")

C24_Witness ==
    /\ sx.conn.weak /\ ~sx.conn.attr
    /\ Len(sx.log) = 2
    /\ sx.log[1] = CallRecord(TRUE, 1, 2, TRUE, "returned")
    /\ sx.log[2].installs = 0 /\ sx.log[2].loads = 0 /\ sx.log[2].status = "returned"
    /\ ~sx.conn.marker

\* C25: once validate_with_duckdb has raised, the run goes on to build_report:
\* the errors collected are one CORRUPTED_FILE and nothing else, ok is false,
\* the report built has that single error, ok = false and the row count the
\* probe obtained from the loaded relation, its exit code is 2, and a run that
\* has exited has exited with 2.
C25_ValidationFailureCaught ==
    (vr.called /\ vr.result.raised) =>
        /\ pc \in {"build", "finish", "exited", "aborted"}
        /\ Len(engine_result.errors) = 1 /\ CodeSet(engine_result.errors) = {"CORRUPTED_FILE"} /\ ~engine_result.ok
        /\ pc \in {"finish", "exited", "aborted"} =>
              /\ rep.built
              /\ codes(rep.report) = <<"CORRUPTED_FILE">>
              /\ ~rep.report.ok
              /\ rep.report.row_count = Len(env.file.rows)
              /\ exit_code(rep.report) = 2
        /\ pc = "exited" => exit_status = 2

C25_Witness ==
    /\ pc = "exited" /\ vr.called /\ vr.result.raised
    /\ exit_status = 2
    /\ rep.report.row_count = 2
    /\ codes(rep.report) = <<"CORRUPTED_FILE">>

\* C26: in the report built for an input path that is a URI with a userinfo
\* component, with or without a password, the path is the input path with the
\* userinfo replaced by the placeholder *** and holds no piece of the
\* userinfo; for an input path without userinfo the path is the input path.
C26_UserinfoRedacted ==
    rp.built =>
        IF rp.userinfo = <<>> THEN rp.reported = rp.path
        ELSE /\ rp.reported = SubSeq(rp.path, 1, 2) \o <<"***">> \o SubSeq(rp.path, 3 + Len(rp.userinfo), Len(rp.path))
             /\ \A w \in SeqSet(rp.userinfo) \ {":", "@"} : ~InSeq(w, rp.reported)

\* C27: when maybe_decompress has ended without returning, for an input that
\* exists and is an archive (the temporary directory was created), the error
\* raised is an UnpackError and the temporary directory no longer exists.
C27_FailureCleansUp ==
    (pc = "md_done" /\ arc.exists /\ _is_archive(arc.name) /\ out.status # "returned") =>
        /\ out.status = "UnpackError"
        /\ ~tmp.exists

RECURSIVE SumSeq(_)
SumSeq(q) == IF q = <<>> THEN 0 ELSE Head(q) + SumSeq(Tail(q))

\* The while loop of the chunked copy is over.
LoopEnded == pc \in {"ld_post", "ld_probe", "ld_done"} /\ ld.batches # <<>>

\* C28 (what holds at every step of the chunked copy of a container layer of
\* N rows): every batch has at most step rows; the offset is the sum of the
\* batch sizes; the rows copied so far are the first rows of the source, each
\* once; at most N + 1 batches are read, and none is empty when the total is
\* known and N > 0; once the loop is over the staging table holds exactly the
\* N rows, and the loop ended on an empty batch or with the offset at the
\* known total; the diagnostics of a return give fallback_loaded_rows = N.
C28_Batches ==
    ld.adapter = "gpkg" =>
        /\ \A k \in DOMAIN ld.batches : ld.batches[k] <= ld.step
        /\ ld.offset = SumSeq(ld.batches)
        /\ ld.copied = [i \in 1..ld.offset |-> i]
        /\ ld.offset <= ld.src_rows
        /\ Len(ld.batches) <= ld.src_rows + 1
        /\ \A k \in DOMAIN ld.batches : ld.batches[k] = 0 => (k = Len(ld.batches) /\ pc # "ld_loop")
        /\ (ld.total # NoneN /\ ld.src_rows > 0) => \A k \in DOMAIN ld.batches : ld.batches[k] > 0
        /\ (pc = "ld_loop" /\ ld.total # NoneN) => ld.offset < ld.total \/ ld.offset = 0
        /\ LoopEnded =>
              /\ ld.offset = ld.src_rows
              /\ ld.created => con[ld.table_name].rows = ld.src_rows
              /\ ~ld.created => ld.src_rows = 0
              /\ ld.batches[Len(ld.batches)] = 0 \/ (ld.total # NoneN /\ ld.offset >= ld.total)
        /\ (LoopEnded /\ ld.status = "returned") => ld.diag.fallback_loaded_rows = ld.src_rows

\* C28: the chunked copy of a container layer keeps C28_Batches at every step,
\* and its loop terminates.
C28_ChunkedCopy == []C28_Batches /\ <>(pc \notin {"ld_attach", "ld_loop"})

C28_Witness ==
    /\ pc = "ld_done" /\ ld.adapter = "gpkg" /\ ld.status = "returned"
    /\ ld.src_rows = 3 /\ ld.step = 2 /\ ld.total = NoneN
    /\ ld.batches = <<2, 1, 0>>
    /\ ld.copied = <<1, 2, 3>>
    /\ ld.diag.fallback_loaded_rows = 3

\* C29: in load_gpkg_view the chunked copy runs only once the sqlite_scanner
\* path has failed, and never once it has returned; when the adapter has
\* returned, the target view exists and the diagnostics name the path used:
\* mode sqlite_scanner without fallback_loaded_rows after the direct path, mode
\* sqlite_scanner_failed with the error kept and fallback_loaded_rows = the
\* rows copied after the fallback.
C29_StrategySelection ==
    ld.adapter = "gpkg" =>
        /\ (pc \in {"ld_loop", "ld_post"} \/ ld.batches # <<>> \/ ld.created) => ld.attach = "failed"
        /\ ld.attach = "returned" => (pc \in {"ld_probe", "ld_done"} /\ ld.batches = <<>> /\ ld.offset = 0 /\ ld.table_name \notin DOMAIN con)
        /\ ld.status = "returned" =>
              /\ ld.view_name \in DOMAIN con
              /\ ld.attach = "returned" => ld.diag = [mode |-> "sqlite_scanner", error |-> FALSE, fallback_loaded_rows |-> NoneN]
              /\ ld.attach = "failed" => ld.diag = [mode |-> "sqlite_scanner_failed", error |-> TRUE, fallback_loaded_rows |-> Len(ld.copied)]
              /\ ld.attach # "untried"

C29_Witness ==
    /\ pc = "ld_done" /\ ld.adapter = "gpkg" /\ ld.status = "returned"
    /\ ld.attach = "failed" /\ ld.attachable /\ ~ld.spatial
    /\ ld.diag = [mode |-> "sqlite_scanner_failed", error |-> TRUE, fallback_loaded_rows |-> 2]
    /\ ld.view_name \in DOMAIN con /\ con[ld.view_name].rows = 2

\* C30: when load_gpkg_view was called with needed columns on a connection
\* that has the functions of the coercion, it returned, whether or not the
\* layer has every needed column; and when the layer holds the geometry under
\* the alias geom and has no column lpis_geom, the relation of the target view
\* has the column lpis_geom, of geometry type, built from the alias.
C30_AliasExposed ==
    (pc = "ld_done" /\ ld.adapter = "gpkg" /\ ld.needed_cols # <<>> /\ ld.spatial) =>
        /\ ld.status = "returned"
        /\ (InSeq("geom", ld.present) /\ ~InSeq("lpis_geom", ld.present)) =>
              /\ ld.normalized
              /\ \E i \in DOMAIN con[ld.view_name].cols : con[ld.view_name].cols[i] = Col("lpis_geom", "GEOMETRY")

\* C19: when the chunked copy of the container adapter or of the multi-file
\* adapter has loaded a source of 0 rows, whatever the view and table names
\* passed, the adapter returned, the relation of the target view name exists,
\* the row-count probe of it gives 0, and the diagnostics report 0 loaded rows.
C19_EmptySource ==
    (pc = "ld_done" /\ ld.src_rows = 0 /\ ld.batches # <<>>) =>
        /\ ld.status = "returned"
        /\ ld.view_name \in DOMAIN con
        /\ ld.row_count = 0
        /\ ld.loaded_rows = 0

====
